---- MODULE Spec2Model ----
(***************************************************************************)
(* Model of the manual RDF -> LPGT loader, create_lpgt_manual.py           *)
(* (LPGTManualCreator) together with the part of database_utils.py         *)
(* (DatabaseManager) it calls.  Strings are sequences of one-character     *)
(* strings, so that str.split, the `in` substring test and int() are       *)
(* computed and not assumed.                                               *)
(***************************************************************************)
EXTENDS Integers, Sequences, FiniteSets, TLC

(***************************************************************************)
(* Bounds of the model.                                                    *)
(***************************************************************************)
\* largest number of triples in the parsed data file
MaxTriples == 3

\* largest number of triples in a data file that is loaded twice
MaxRerunTriples == 2

\* largest number of triples in a data file of typed literals
MaxLiteralTriples == 2

\* largest number of triples in a data file of linked resources
MaxShapeTriples == 3

\* largest number of triples in a data file of resources linked in cycles
MaxCycleTriples == 3

\* largest number of triples in a data file with properties named as the
\* attributes of the skeleton and of the server
MaxReservedTriples == 2

(***************************************************************************)
(* Python string operations used by the loader.                            *)
(***************************************************************************)
\* c in s, for a one-character c
HasChar(s, c) == \E k \in 1..Len(s) : s[k] = c

\* sub in s  (substring test)
Contains(s, sub) ==
    \E k \in 0..(Len(s) - Len(sub)) :
        \A j \in 1..Len(sub) : s[k + j] = sub[j]

\* index of the last occurrence of c in s, 0 when there is none
LastIndex(s, c) ==
    IF HasChar(s, c)
    THEN CHOOSE k \in 1..Len(s) :
            s[k] = c /\ \A j \in (k + 1)..Len(s) : s[j] # c
    ELSE 0

\* s.split(c)[-1]: the text after the last c, the whole of s when c is absent
SplitLast(s, c) == SubSeq(s, LastIndex(s, c) + 1, Len(s))

Digits == <<"0", "1", "2", "3", "4", "5", "6", "7", "8", "9">>

IsDigit(c) == \E d \in 1..10 : Digits[d] = c

DigitValue(c) == (CHOOSE d \in 1..10 : Digits[d] = c) - 1

IsSpace(c) == c = " "

\* s.strip(): both int() and float() ignore surrounding whitespace
RECURSIVE LStrip(_)
LStrip(s) == IF s # <<>> /\ IsSpace(Head(s)) THEN LStrip(Tail(s)) ELSE s

RECURSIVE RStrip(_)
RStrip(s) ==
    IF s # <<>> /\ IsSpace(s[Len(s)]) THEN RStrip(SubSeq(s, 1, Len(s) - 1)) ELSE s

Strip(s) == RStrip(LStrip(s))

\* value of a non-empty run of decimal digits
RECURSIVE DigitsValue(_)
DigitsValue(s) ==
    IF s = <<>> THEN 0
    ELSE 10 * DigitsValue(SubSeq(s, 1, Len(s) - 1)) + DigitValue(s[Len(s)])

AllDigits(s) == s # <<>> /\ \A k \in 1..Len(s) : IsDigit(s[k])

HasSign(s) == s # <<>> /\ Head(s) \in {"+", "-"}

Unsigned(s) == IF HasSign(s) THEN Tail(s) ELSE s

\* int(s) succeeds: optional whitespace, optional sign, decimal digits
\* (exact for texts without underscores, as those of the data files below)
IntParses(s) == AllDigits(Unsigned(Strip(s)))

\* int(s), where it succeeds
IntOf(s) ==
    LET t == Strip(s)
    IN  IF HasSign(t) /\ Head(t) = "-"
        THEN 0 - DigitsValue(Unsigned(t))
        ELSE DigitsValue(Unsigned(t))

\* float(s) succeeds: optional whitespace and sign, digits with at most one
\* decimal point and at least one digit (exact for texts without underscore,
\* exponent, inf or nan, as those of the data files below)
FloatParses(s) ==
    LET t == Unsigned(Strip(s))
        p == LastIndex(t, ".")
        whole == IF p = 0 THEN t ELSE SubSeq(t, 1, p - 1)
        frac == IF p = 0 THEN <<>> ELSE SubSeq(t, p + 1, Len(t))
    IN  /\ whole \o frac # <<>>
        /\ \A k \in 1..Len(whole) : IsDigit(whole[k])
        /\ \A k \in 1..Len(frac) : IsDigit(frac[k])

\* the fraction digits of a float without the trailing zeros
RECURSIVE DropZeros(_)
DropZeros(s) ==
    IF s # <<>> /\ s[Len(s)] = "0" THEN DropZeros(SubSeq(s, 1, Len(s) - 1)) ELSE s

\* float(s), where it succeeds, as the pair <<n, e>> standing for n / 10^e
FloatOf(s) ==
    LET t0 == Strip(s)
        t == Unsigned(t0)
        p == LastIndex(t, ".")
        whole == IF p = 0 THEN t ELSE SubSeq(t, 1, p - 1)
        frac == DropZeros(IF p = 0 THEN <<>> ELSE SubSeq(t, p + 1, Len(t)))
        mag == DigitsValue(whole \o frac)
    IN  <<IF HasSign(t0) /\ Head(t0) = "-" THEN 0 - mag ELSE mag, Len(frac)>>

\* str(n) for a natural number n
RECURSIVE DecStr(_)
DecStr(n) ==
    IF n < 10 THEN <<Digits[n + 1]>>
    ELSE DecStr(n \div 10) \o <<Digits[(n % 10) + 1]>>

(***************************************************************************)
(* RDF terms (rdflib URIRef, BNode, Literal).  Two terms are equal when    *)
(* their class and their text are equal; dt is the datatype URI of a       *)
(* literal, <<>> when it has none.                                         *)
(***************************************************************************)
URIRef(s) == [kind |-> "URIRef", s |-> s, dt |-> <<>>]

BNode(s) == [kind |-> "BNode", s |-> s, dt |-> <<>>]

Literal(s, dt) == [kind |-> "Literal", s |-> s, dt |-> dt]

\* isinstance(x, (URIRef, BNode))
IsResource(x) == x.kind \in {"URIRef", "BNode"}

\* isinstance(x, Literal)
IsLiteral(x) == x.kind = "Literal"

Triple(s, p, o) == [s |-> s, p |-> p, o |-> o]

(***************************************************************************)
(* Values of document attributes: None, str, int, float (n / 10^e).        *)
(***************************************************************************)
NoneVal == [t |-> "none", s |-> <<>>, n |-> 0, e |-> 0]

StrVal(s) == [t |-> "str", s |-> s, n |-> 0, e |-> 0]

IntVal(n) == [t |-> "int", s |-> <<>>, n |-> n, e |-> 0]

FloatVal(f) == [t |-> "float", s |-> <<>>, n |-> f[1], e |-> f[2]]

\* the attribute names of the record shell
K_uri == <<"_", "u", "r", "i">>

K_label == <<"_", "l", "a", "b", "e", "l">>

K_rdftype == <<"_", "r", "d", "f", "t", "y", "p", "e">>

\* the attribute under which the server takes the key of a document
K_key == <<"_", "k", "e", "y">>

T_URIRef == <<"U", "R", "I", "R", "e", "f">>

T_BNode == <<"B", "N", "o", "d", "e">>

T_int == <<"i", "n", "t">>

T_integer == <<"i", "n", "t", "e", "g", "e", "r">>

T_float == <<"f", "l", "o", "a", "t">>

T_double == <<"d", "o", "u", "b", "l", "e">>

\* Skeleton that puts the text of a blank node under _uri
Skeleton_UriOfBNode(node) ==
    LET label == IF node.kind = "URIRef"
                 THEN StrVal(SplitLast(node.s, "/"))
                 ELSE StrVal(node.s)
        rdftype == IF node.kind = "URIRef" THEN StrVal(T_URIRef) ELSE StrVal(T_BNode)
    IN  [k \in {K_uri, K_label, K_rdftype} |->
            IF k = K_uri THEN StrVal(node.s)
            ELSE IF k = K_label THEN label ELSE rdftype]

\* the initial document of a resource: _uri, _label, _rdftype
Skeleton(node) ==
    LET uri == IF node.kind = "URIRef" THEN StrVal(node.s) ELSE NoneVal
        label == IF node.kind = "URIRef"
                 THEN StrVal(SplitLast(node.s, "/"))
                 ELSE StrVal(node.s)
        rdftype == IF node.kind = "URIRef" THEN StrVal(T_URIRef) ELSE StrVal(T_BNode)
    IN  [k \in {K_uri, K_label, K_rdftype} |->
            IF k = K_uri THEN uri ELSE IF k = K_label THEN label ELSE rdftype]

\* the local name of a predicate IRI
LocalName(pred_str) ==
    IF HasChar(pred_str, "#") THEN SplitLast(pred_str, "#")
    ELSE IF HasChar(pred_str, "/") THEN SplitLast(pred_str, "/")
    ELSE pred_str

\* Coerce that tries int(obj) on a literal of any datatype
Coerce_AnyDatatype(obj) ==
    IF obj.dt # <<>>
    THEN IF IntParses(obj.s) THEN IntVal(IntOf(obj.s)) ELSE StrVal(obj.s)
    ELSE StrVal(obj.s)

\* Coerce that looks for "float" only in the datatype text, not for "double"
Coerce_FloatOnly(obj) ==
    IF obj.dt # <<>>
    THEN IF Contains(obj.dt, T_integer) \/ Contains(obj.dt, T_int)
         THEN IF IntParses(obj.s) THEN IntVal(IntOf(obj.s)) ELSE StrVal(obj.s)
         ELSE IF Contains(obj.dt, T_float)
         THEN IF FloatParses(obj.s) THEN FloatVal(FloatOf(obj.s)) ELSE StrVal(obj.s)
         ELSE StrVal(obj.s)
    ELSE StrVal(obj.s)

\* Coerce that tries float(obj) after int(obj) has failed
Coerce_FloatFallback(obj) ==
    IF obj.dt # <<>>
    THEN IF Contains(obj.dt, T_integer) \/ Contains(obj.dt, T_int)
         THEN IF IntParses(obj.s) THEN IntVal(IntOf(obj.s))
              ELSE IF FloatParses(obj.s) THEN FloatVal(FloatOf(obj.s))
              ELSE StrVal(obj.s)
         ELSE IF Contains(obj.dt, T_float) \/ Contains(obj.dt, T_double)
         THEN IF FloatParses(obj.s) THEN FloatVal(FloatOf(obj.s)) ELSE StrVal(obj.s)
         ELSE StrVal(obj.s)
    ELSE StrVal(obj.s)

\* the datatype conversion of a literal
Coerce(obj) ==
    IF obj.dt # <<>>
    THEN IF Contains(obj.dt, T_integer) \/ Contains(obj.dt, T_int)
         THEN IF IntParses(obj.s) THEN IntVal(IntOf(obj.s)) ELSE StrVal(obj.s)
         ELSE IF Contains(obj.dt, T_float) \/ Contains(obj.dt, T_double)
         THEN IF FloatParses(obj.s) THEN FloatVal(FloatOf(obj.s)) ELSE StrVal(obj.s)
         ELSE StrVal(obj.s)
    ELSE StrVal(obj.s)

\* SetItem that keeps the value a key already has
SetItem_KeepFirst(doc, key, value) ==
    [k \in DOMAIN doc \cup {key} |->
        IF k \in DOMAIN doc THEN doc[k] ELSE value]

\* doc[key] = value
SetItem(doc, key, value) ==
    [k \in DOMAIN doc \cup {key} |-> IF k = key THEN value ELSE doc[k]]

\* AddNodes that registers the subject only
AddNodes_SubjectOnly(ns, tr) ==
    ns \cup (IF IsResource(tr.s) THEN {tr.s} ELSE {})

\* nodes.add(subject); nodes.add(obj): the resources one triple registers
AddNodes(ns, tr) ==
    ns \cup (IF IsResource(tr.s) THEN {tr.s} ELSE {})
       \cup (IF IsResource(tr.o) THEN {tr.o} ELSE {})

\* CollectProperties that keys a property by the full predicate IRI
CollectProperties_FullIri(nd, tr) ==
    IF IsResource(tr.s)
    THEN LET doc0 == IF tr.s \in DOMAIN nd THEN nd[tr.s] ELSE Skeleton(tr.s)
             doc1 == IF IsLiteral(tr.o)
                     THEN SetItem(doc0, tr.p.s, Coerce(tr.o))
                     ELSE doc0
         IN  [r \in DOMAIN nd \cup {tr.s} |-> IF r = tr.s THEN doc1 ELSE nd[r]]
    ELSE nd

\* CollectProperties that starts the subject's document anew at every triple
CollectProperties_Reset(nd, tr) ==
    IF IsResource(tr.s)
    THEN LET doc0 == Skeleton(tr.s)
             doc1 == IF IsLiteral(tr.o)
                     THEN SetItem(doc0, LocalName(tr.p.s), Coerce(tr.o))
                     ELSE doc0
         IN  [r \in DOMAIN nd \cup {tr.s} |-> IF r = tr.s THEN doc1 ELSE nd[r]]
    ELSE nd

\* CollectProperties that sets the document of a resource object to its skeleton
CollectProperties_ObjectSkeleton(nd, tr) ==
    LET doc0 == IF tr.s \in DOMAIN nd THEN nd[tr.s] ELSE Skeleton(tr.s)
        doc1 == IF IsLiteral(tr.o)
                THEN SetItem(doc0, LocalName(tr.p.s), Coerce(tr.o))
                ELSE doc0
        nd1 == IF IsResource(tr.s)
               THEN [r \in DOMAIN nd \cup {tr.s} |-> IF r = tr.s THEN doc1 ELSE nd[r]]
               ELSE nd
    IN  IF IsResource(tr.o)
        THEN [r \in DOMAIN nd1 \cup {tr.o} |->
                 IF r = tr.o THEN Skeleton(tr.o) ELSE nd1[r]]
        ELSE nd1

\* the body of the node extraction loop on node_data, for one triple
CollectProperties(nd, tr) ==
    IF IsResource(tr.s)
    THEN LET doc0 == IF tr.s \in DOMAIN nd THEN nd[tr.s] ELSE Skeleton(tr.s)
             doc1 == IF IsLiteral(tr.o)
                     THEN SetItem(doc0, LocalName(tr.p.s), Coerce(tr.o))
                     ELSE doc0
         IN  [r \in DOMAIN nd \cup {tr.s} |-> IF r = tr.s THEN doc1 ELSE nd[r]]
    ELSE nd

\* the node extraction loop over the triples q: nodes and node_data at its end
RECURSIVE ExtractNodes(_)
ExtractNodes(q) ==
    IF q = <<>> THEN [nodes |-> {}, node_data |-> <<>>]
    ELSE LET r == ExtractNodes(SubSeq(q, 1, Len(q) - 1))
             tr == q[Len(q)]
         IN  [nodes |-> AddNodes(r.nodes, tr),
              node_data |-> CollectProperties(r.node_data, tr)]

\* NodeDoc whose default document is labelled with the whole text of the node
NodeDoc_WholeTextLabel(nd, node) ==
    IF node \in DOMAIN nd THEN nd[node]
    ELSE [k \in DOMAIN Skeleton(node) |->
            IF k = K_label THEN StrVal(node.s) ELSE Skeleton(node)[k]]

\* node_data.get(node, {...})
NodeDoc(nd, node) == IF node \in DOMAIN nd THEN nd[node] ELSE Skeleton(node)

\* f"Node/{key}"
NodeRef(key) == <<"N", "o", "d", "e", "/">> \o key

T_ObjectProperty ==
    <<"O", "b", "j", "e", "c", "t", "P", "r", "o", "p", "e", "r", "t", "y">>

\* RelationDoc whose label is the text after the last '/' of the predicate
RelationDoc_SlashLabel(km, tr) ==
    [_from |-> NodeRef(km[tr.s]),
     _to |-> NodeRef(km[tr.o]),
     predicate |-> tr.p.s,
     predicate_label |-> SplitLast(tr.p.s, "/"),
     _rdftype |-> T_ObjectProperty]

\* the relation document of one triple
RelationDoc(km, tr) ==
    [_from |-> NodeRef(km[tr.s]),
     _to |-> NodeRef(km[tr.o]),
     predicate |-> tr.p.s,
     predicate_label |-> LocalName(tr.p.s),
     _rdftype |-> T_ObjectProperty]

\* MakesRelation that tests the object for URIRef only
MakesRelation_UriOnly(km, tr) ==
    tr.o.kind = "URIRef" /\ tr.s \in DOMAIN km /\ tr.o \in DOMAIN km

\* the test that guards the construction of a relation document
MakesRelation(km, tr) ==
    IsResource(tr.o) /\ tr.s \in DOMAIN km /\ tr.o \in DOMAIN km

\* the relation loop over the triples q with the key map km: relations at its end
RECURSIVE BuildRelations(_, _)
BuildRelations(km, q) ==
    IF q = <<>> THEN <<>>
    ELSE LET r == BuildRelations(km, SubSeq(q, 1, Len(q) - 1))
             tr == q[Len(q)]
         IN  IF MakesRelation(km, tr) THEN Append(r, RelationDoc(km, tr)) ELSE r

(***************************************************************************)
(* The data files the model is run on: every sequence without repetition   *)
(* of at most MaxTriples triples of TripleUniverse.  A sequence is the set  *)
(* of triples of the parsed graph in the order in which the graph is       *)
(* iterated.  Subjects are URIs or blank nodes, as the Turtle parser       *)
(* produces them.                                                          *)
(***************************************************************************)
ex_alice == URIRef(<<"e", "x", "/", "a", "l", "i", "c", "e">>)

ex_bob == URIRef(<<"e", "x", "/", "b", "o", "b">>)

bnode_1 == BNode(<<"b", "1">>)

foaf_name == URIRef(<<"f", "/", "n", "a", "m", "e">>)

foaf_knows == URIRef(<<"f", "/", "k", "n", "o", "w", "s">>)

foaf_age == URIRef(<<"f", "/", "a", "g", "e">>)

vcard_name == URIRef(<<"v", "#", "n", "a", "m", "e">>)

xsd_integer == <<"x", "#", "i", "n", "t", "e", "g", "e", "r">>

lit_Alice == Literal(<<"A", "l", "i", "c", "e">>, <<>>)

lit_Al == Literal(<<"A", "l">>, <<>>)

lit_Bob == Literal(<<"B", "o", "b">>, <<>>)

lit_42 == Literal(<<"4", "2">>, xsd_integer)

lit_knows == Literal(<<"k", "n", "o", "w", "s">>, <<>>)

\* resources and a predicate of the data files of linked resources
ex_dave == URIRef(<<"e", "x", "/", "d", "#", "e">>)

urn_carol == URIRef(<<"u", "r", "n", ":", "c", "a", "r", "o", "l">>)

foaf_likes == URIRef(<<"f", "/", "l", "i", "k", "e", "s">>)

\* predicates and datatypes of the data files of typed literals
ex_age == URIRef(<<"o", "/", "w", "#", "a", "g", "e">>)

ex_height == URIRef(<<"f", "/", "h", "e", "i", "g", "h", "t">>)

urn_active == URIRef(<<"u", "r", "n", ":", "a", "c", "t", "i", "v", "e">>)

ex_born == URIRef(<<"a", "#", "b", "/", "b", "o", "r", "n">>)

xsd_int == <<"x", "#", "i", "n", "t">>

xsd_double == <<"x", "#", "d", "o", "u", "b", "l", "e">>

xsd_float == <<"x", "#", "f", "l", "o", "a", "t">>

xsd_boolean == <<"x", "#", "b", "o", "o", "l", "e", "a", "n">>

xsd_date == <<"x", "#", "d", "a", "t", "e">>

geo_point_float == <<"g", "/", "p", "o", "i", "n", "t", "#", "f", "l", "o", "a", "t">>

lit_abc_integer == Literal(<<"a", "b", "c">>, xsd_integer)

lit_3_5_int == Literal(<<"3", ".", "5">>, xsd_int)

lit_minus_7 == Literal(<<"-", "7">>, xsd_integer)

lit_3_14 == Literal(<<"3", ".", "1", "4">>, xsd_double)

lit_abc_float == Literal(<<"a", "b", "c">>, xsd_float)

lit_2_5_point == Literal(<<"2", ".", "5">>, geo_point_float)

lit_true == Literal(<<"t", "r", "u", "e">>, xsd_boolean)

lit_1999 == Literal(<<"1", "9", "9", "9">>, xsd_date)

TripleUniverse ==
    { Triple(ex_alice, foaf_name, lit_Alice),
      Triple(ex_alice, foaf_knows, ex_bob),
      Triple(ex_bob, foaf_name, lit_Bob),
      Triple(ex_alice, foaf_name, lit_Al),
      Triple(ex_alice, vcard_name, lit_Al),
      Triple(ex_bob, foaf_age, lit_42),
      Triple(ex_bob, foaf_knows, bnode_1),
      Triple(foaf_knows, foaf_name, lit_knows) }

\* the sequences over S of length n without repetition
RECURSIVE InjSeqs(_, _)
InjSeqs(S, n) ==
    IF n = 0 THEN {<<>>}
    ELSE UNION { { Append(q, x) : x \in S \ {q[k] : k \in 1..Len(q)} } :
                 q \in InjSeqs(S, n - 1) }

DataFiles == UNION { InjSeqs(TripleUniverse, n) : n \in 0..MaxTriples }

\* the set of the elements of a sequence
Range(q) == {q[k] : k \in 1..Len(q)}

(***************************************************************************)
(* State.                                                                  *)
(***************************************************************************)
VARIABLES
    pc,             \* the step create_lpgt_database is at
    result,         \* what create_lpgt_database returned: "none" while running
    data_file,      \* the triples of config.DATA_PATHS["foaf_data"]
    run,            \* "first", or how the earlier run ended when this is a rerun
    sys_db,         \* db_manager.sys_db is set
    lpgt_db,        \* self.lpgt_db is set
    foaf_graph,     \* the loaded graph, in iteration order
    i,              \* position of the running for loop over foaf_graph
    nodes,          \* transform_rdf_to_lpgt: nodes
    node_data,      \* transform_rdf_to_lpgt: node_data
    pending,        \* the elements of nodes the insert loop has not visited
    node_key_map,   \* transform_rdf_to_lpgt: node_key_map
    relations,      \* transform_rdf_to_lpgt: relations
    transform_ret,  \* what transform_rdf_to_lpgt returned: "none" before
    steps,          \* the methods create_lpgt_database has called, in order
    db_exists,      \* the server has a database FOAF-LPGT
    colls,          \* its non-system collections
    Node,           \* the documents of collection Node, by _key
    relation,       \* the documents of collection relation
    graphs,         \* its graph definitions
    next_key,       \* the next key the server generates
    calls,          \* the insert calls made on the two collections
    admin,          \* the calls on the server of the last step that made any
    demo_pc,        \* the step FOAFDemo.run_demo is at, "idle" when none runs
    demo_result,    \* what run_demo returned: "none" while running
    demo_i,         \* position of the loop of create_databases
    databases,      \* the keys of FOAFDemo.databases
    arango_rdf_instances, \* the keys of FOAFDemo.arango_rdf_instances
    other_dbs,      \* the databases FOAF-RPT and FOAF-PGT the server has
    loaded,         \* the models the mapping library has loaded
    demo_fault      \* a call of run_demo on the server, the file or the library raised

local_vars == <<i, nodes, node_data, pending, node_key_map, relations>>

server_vars == <<db_exists, colls, Node, relation, graphs, next_key>>

creator_vars == <<pc, result, run, sys_db, lpgt_db, local_vars, transform_ret, steps,
                  calls, admin>>

\* the state of a FOAFDemo and of the other two databases of the server
demo_vars == <<demo_pc, demo_result, demo_i, databases, arango_rdf_instances,
               other_dbs, loaded, demo_fault>>

vars == <<pc, result, data_file, run, sys_db, lpgt_db, foaf_graph, local_vars,
          transform_ret, steps, server_vars, calls, admin, demo_vars>>

\* config.GRAPH_NAMES["lpgt"]
GraphName == "foaf_lpgt_graph"

\* db.create_graph(name): a graph without collections
EmptyGraph(name) ==
    [name |-> name, orphan_collections |-> {}, edge_definitions |-> {}]

\* graph.create_vertex_collection(coll)
WithVertexCollection(g, coll) ==
    [g EXCEPT !.orphan_collections = @ \cup {coll}]

\* graph.create_edge_definition(...): the collections it binds are not orphans
WithEdgeDefinition(g, coll, from, to) ==
    [g EXCEPT !.edge_definitions =
                  @ \cup {[edge_collection |-> coll,
                           from_vertex_collections |-> from,
                           to_vertex_collections |-> to]},
              !.orphan_collections = @ \ (from \cup to)]

\* the graph definition create_graph_definition builds
LpgtGraph ==
    WithEdgeDefinition(WithVertexCollection(EmptyGraph(GraphName), "Node"),
                       "relation", {"Node"}, {"Node"})

\* a database left on the server by an earlier load
StaleNode == [k \in {<<"1">>} |-> Skeleton(ex_bob)]

\* no FOAFDemo runs
DemoIdle ==
    /\ demo_pc = "idle"
    /\ demo_result = "none"
    /\ demo_i = 0
    /\ databases = {}
    /\ arango_rdf_instances = {}
    /\ other_dbs = {}
    /\ loaded = {}
    /\ demo_fault = FALSE

\* a new LPGTManualCreator whose caller begins at one of the steps of start
\* a new LPGTManualCreator on one of files, about to take one of the steps start
CreatorAt(files, start) ==
    /\ pc \in start
    /\ result = "none"
    /\ data_file \in files
    /\ run = "first"
    /\ sys_db = FALSE
    /\ lpgt_db = FALSE
    /\ foaf_graph = <<>>
    /\ i = 0
    /\ nodes = {}
    /\ node_data = <<>>
    /\ pending = {}
    /\ node_key_map = <<>>
    /\ relations = <<>>
    /\ transform_ret = "none"
    /\ steps = <<>>
    /\ calls = <<>>
    /\ admin = <<>>

InitCreatorAt(files, start) ==
    /\ CreatorAt(files, start)
    /\ DemoIdle

InitCreator(files) == InitCreatorAt(files, {"connect"})

\* a server without a database FOAF-LPGT
ServerWithoutDatabase ==
    /\ db_exists = FALSE
    /\ colls = {}
    /\ Node = <<>>
    /\ relation = <<>>
    /\ graphs = {}
    /\ next_key = 1

\* a server with a database FOAF-LPGT of an earlier load
ServerWithDatabase ==
    /\ db_exists = TRUE
    /\ colls = {"Node", "relation"}
    /\ Node = StaleNode
    /\ relation = <<>>
    /\ graphs = {LpgtGraph}
    /\ next_key = 2

Init ==
    /\ InitCreator(DataFiles)
    /\ ServerWithoutDatabase \/ ServerWithDatabase

\* a step of create_lpgt_database returned False (or None): return False
Fail ==
    /\ pc' = "done"
    /\ result' = "False"

\* the server drops the database and all it holds
Dropped ==
    /\ db_exists' = FALSE
    /\ colls' = {}
    /\ Node' = <<>>
    /\ relation' = <<>>
    /\ graphs' = {}
    /\ next_key' = 1

\* the server creates the database, empty
Created ==
    /\ db_exists' = TRUE
    /\ colls' = {}
    /\ Node' = <<>>
    /\ relation' = <<>>
    /\ graphs' = {}
    /\ next_key' = 1

(***************************************************************************)
(* Steps 1 to 4 of create_lpgt_database.                                   *)
(***************************************************************************)
\* Step 1, connect_to_arango: the connection is made or refused
\* a call on the server and whether it returned
AdminCall(op, ok) == [op |-> op, ok |-> ok]

\* the calls of ops made when all of them return
Returned(ops) == [k \in 1..Len(ops) |-> AdminCall(ops[k], TRUE)]

\* the calls of ops made when the first op that raises is f: those before f
\* return, f is the last call
RaisedAt(ops, f) ==
    LET n == CHOOSE k \in 1..Len(ops) :
                 ops[k] = f /\ \A j \in 1..(k - 1) : ops[j] # f
    IN  [k \in 1..n |-> AdminCall(ops[k], k < n)]

\* the outcomes of DatabaseManager.connect_to_system_db: it returns, or
\* ArangoClient or client.db raises, or version() raises after sys_db was set
ConnectOutcomes == {"none", "client", "version"}

Connect ==
    /\ pc = "connect"
    /\ steps' = Append(steps, "connect_to_arango")
    /\ \E fail \in ConnectOutcomes :
          /\ sys_db' = (sys_db \/ fail # "client")
          /\ admin' = <<AdminCall("connect_to_system_db", fail = "none")>>
          /\ IF fail = "none"
             THEN /\ pc' = "load"
                  /\ UNCHANGED result
             ELSE Fail
    /\ UNCHANGED <<data_file, run, lpgt_db, foaf_graph, local_vars, transform_ret,
                   server_vars, calls>>
    /\ UNCHANGED demo_vars

\* Step 2, load_foaf_data: the file is parsed, or is missing or malformed
\* LoadData that drops the database when the data cannot be loaded
LoadData_DropsOnFailure ==
    /\ pc = "load"
    /\ steps' = Append(steps, "load_foaf_data")
    /\ \E ok \in BOOLEAN :
          IF ok
          THEN /\ foaf_graph' = data_file
               /\ pc' = "recreate"
               /\ UNCHANGED <<result, server_vars>>
          ELSE /\ Fail
               /\ Dropped
               /\ UNCHANGED foaf_graph
    /\ UNCHANGED <<data_file, run, sys_db, lpgt_db, local_vars, transform_ret,
                   calls>>
    /\ UNCHANGED <<admin, demo_vars>>

LoadData ==
    /\ pc = "load"
    /\ steps' = Append(steps, "load_foaf_data")
    /\ \E ok \in BOOLEAN :
          IF ok
          THEN /\ foaf_graph' = data_file
               /\ pc' = "recreate"
               /\ UNCHANGED result
          ELSE /\ Fail
               /\ UNCHANGED foaf_graph
    /\ UNCHANGED <<data_file, run, sys_db, lpgt_db, local_vars, transform_ret,
                   server_vars, calls>>
    /\ UNCHANGED <<admin, demo_vars>>

\* the calls recreate_database makes on the server when none raises
RecreateOps ==
    (IF sys_db THEN <<>> ELSE <<"connect_to_system_db">>)
    \o <<"has_database">>
    \o (IF db_exists THEN <<"delete_database">> ELSE <<>>)
    \o <<"create_database", "connect_to_database">>

\* RecreateDatabase that keeps a database that exists
\* (DatabaseManager.create_database_if_not_exists)
RecreateDatabase_IfNotExists ==
    /\ pc = "recreate"
    /\ steps' = Append(steps, "recreate_lpgt_database")
    /\ \E fail \in {"none", "has_database", "create_database"} :
          LET ops == (IF sys_db THEN <<>> ELSE <<"connect_to_system_db">>)
                     \o <<"has_database">>
                     \o (IF db_exists THEN <<>> ELSE <<"create_database">>)
                     \o <<"connect_to_database">>
          IN  /\ fail = "create_database" => ~db_exists
              /\ sys_db' = TRUE
              /\ admin' = (IF fail = "none" THEN Returned(ops)
                            ELSE RaisedAt(ops, fail))
              /\ IF fail = "none"
                 THEN /\ IF db_exists THEN UNCHANGED server_vars ELSE Created
                      /\ lpgt_db' = TRUE
                      /\ pc' = "collections"
                      /\ UNCHANGED result
                 ELSE /\ Fail
                      /\ UNCHANGED <<lpgt_db, server_vars>>
    /\ UNCHANGED <<data_file, run, foaf_graph, local_vars, transform_ret, calls>>
    /\ UNCHANGED demo_vars

\* RecreateDatabase that puts the database back when create_database raises
RecreateDatabase_Restores ==
    /\ pc = "recreate"
    /\ steps' = Append(steps, "recreate_lpgt_database")
    /\ \E fail \in ConnectOutcomes \cup {"has_database", "delete_database",
                                          "create_database", "connect_to_database"} :
          LET op == IF fail \in {"client", "version"}
                    THEN "connect_to_system_db" ELSE fail
          IN  /\ fail # "none" => \E k \in 1..Len(RecreateOps) : RecreateOps[k] = op
              /\ sys_db' = (sys_db \/ fail # "client")
              /\ admin' = (IF fail = "none" THEN Returned(RecreateOps)
                            ELSE RaisedAt(RecreateOps, op))
              /\ CASE fail \in {"client", "version", "has_database",
                                 "delete_database", "create_database"} ->
                        /\ Fail
                        /\ UNCHANGED <<lpgt_db, server_vars>>
                   [] fail = "connect_to_database" ->
                        /\ Fail
                        /\ Created
                        /\ UNCHANGED lpgt_db
                   [] fail = "none" ->
                        /\ Created
                        /\ lpgt_db' = TRUE
                        /\ pc' = "collections"
                        /\ UNCHANGED result
    /\ UNCHANGED <<data_file, run, foaf_graph, local_vars, transform_ret, calls>>
    /\ UNCHANGED demo_vars

\* Step 3, recreate_lpgt_database -> DatabaseManager.recreate_database:
\* has_database, delete_database when it exists, create_database; fail names
\* the call that raises
RecreateDatabase ==
    /\ pc = "recreate"
    /\ steps' = Append(steps, "recreate_lpgt_database")
    /\ \E fail \in ConnectOutcomes \cup {"has_database", "delete_database",
                                          "create_database", "connect_to_database"} :
          LET op == IF fail \in {"client", "version"}
                    THEN "connect_to_system_db" ELSE fail
          IN  /\ fail # "none" => \E k \in 1..Len(RecreateOps) : RecreateOps[k] = op
              /\ sys_db' = (sys_db \/ fail # "client")
              /\ admin' = (IF fail = "none" THEN Returned(RecreateOps)
                            ELSE RaisedAt(RecreateOps, op))
              /\ CASE fail \in {"client", "version", "has_database",
                                 "delete_database"} ->
                        /\ Fail
                        /\ UNCHANGED <<lpgt_db, server_vars>>
                   [] fail = "create_database" ->
                        /\ Fail
                        /\ Dropped
                        /\ UNCHANGED lpgt_db
                   [] fail = "connect_to_database" ->
                        /\ Fail
                        /\ Created
                        /\ UNCHANGED lpgt_db
                   [] fail = "none" ->
                        /\ Created
                        /\ lpgt_db' = TRUE
                        /\ pc' = "collections"
                        /\ UNCHANGED result
    /\ UNCHANGED <<data_file, run, foaf_graph, local_vars, transform_ret, calls>>
    /\ UNCHANGED demo_vars

\* CreateCollections whose failure does not end the run
CreateCollections_IgnoreFailure ==
    /\ pc = "collections"
    /\ steps' = Append(steps, "create_collections")
    /\ \E fail \in {"none", "Node", "relation"} :
          /\ colls' = CASE fail = "Node" -> colls
                         [] fail = "relation" -> colls \cup {"Node"}
                         [] fail = "none" -> colls \cup {"Node", "relation"}
          /\ pc' = "transform"
          /\ UNCHANGED result
    /\ UNCHANGED <<data_file, run, sys_db, lpgt_db, foaf_graph, local_vars,
                   transform_ret, db_exists, Node, relation, graphs, next_key,
                   calls>>
    /\ UNCHANGED <<admin, demo_vars>>

\* Step 4, create_collections: Node, then relation, each when missing; fail
\* names the collection whose has_collection or create_collection raises
CreateCollections ==
    /\ pc = "collections"
    /\ steps' = Append(steps, "create_collections")
    /\ \E fail \in {"none", "Node", "relation"} :
          LET nodeOps == <<"has_collection Node">>
                         \o (IF "Node" \in colls THEN <<>>
                             ELSE <<"create_collection Node">>)
              relOps == <<"has_collection relation">>
                        \o (IF "relation" \in colls THEN <<>>
                            ELSE <<"create_collection relation">>)
          IN  CASE fail = "Node" ->
                        /\ Fail
                        /\ admin' = RaisedAt(nodeOps, nodeOps[Len(nodeOps)])
                        /\ UNCHANGED colls
                [] fail = "relation" ->
                        /\ Fail
                        /\ admin' = RaisedAt(nodeOps \o relOps, relOps[Len(relOps)])
                        /\ colls' = colls \cup {"Node"}
                [] fail = "none" ->
                        /\ admin' = Returned(nodeOps \o relOps)
                        /\ colls' = colls \cup {"Node", "relation"}
                        /\ pc' = "transform"
                        /\ UNCHANGED result
    /\ UNCHANGED <<data_file, run, sys_db, lpgt_db, foaf_graph, local_vars,
                   transform_ret, db_exists, Node, relation, graphs, next_key,
                   calls>>
    /\ UNCHANGED demo_vars

(***************************************************************************)
(* Step 5, transform_rdf_to_lpgt.                                          *)
(***************************************************************************)
NoNode == [kind |-> "none", s |-> <<>>, dt |-> <<>>]

\* one entry of calls: an insert or insert_many call and whether it returned
Call(op, coll, node, docs, ok) ==
    [op |-> op, coll |-> coll, node |-> node, docs |-> docs, ok |-> ok]

\* except Exception: return False, and create_lpgt_database returns False
TransformRaises ==
    /\ transform_ret' = "False"
    /\ Fail

\* entry of transform_rdf_to_lpgt: nodes = set(), node_data = {}
BeginTransform ==
    /\ pc = "transform"
    /\ steps' = Append(steps, "transform_rdf_to_lpgt")
    /\ pc' = "extract"
    /\ i' = 1
    /\ nodes' = {}
    /\ node_data' = <<>>
    /\ pending' = {}
    /\ node_key_map' = <<>>
    /\ relations' = <<>>
    /\ UNCHANGED <<result, data_file, run, sys_db, lpgt_db, foaf_graph, transform_ret,
                   server_vars, calls>>
    /\ UNCHANGED <<admin, demo_vars>>

\* one iteration of the node extraction loop
\* ExtractTriple that goes on with a triple of which the object is the subject
ExtractTriple_FollowsEdge ==
    /\ pc = "extract"
    /\ i <= Len(foaf_graph)
    /\ nodes' = AddNodes(nodes, foaf_graph[i])
    /\ node_data' = CollectProperties(node_data, foaf_graph[i])
    /\ i' = LET out == {k \in 1..Len(foaf_graph) :
                            foaf_graph[k].s = foaf_graph[i].o}
            IN  IF out # {} THEN CHOOSE k \in out : TRUE ELSE i + 1
    /\ UNCHANGED <<pc, result, data_file, run, sys_db, lpgt_db, foaf_graph, pending,
                   node_key_map, relations, transform_ret, steps, server_vars,
                   calls>>
    /\ UNCHANGED <<admin, demo_vars>>

\* ExtractTriple in which a failed int(obj) or float(obj) is not caught
ExtractTriple_CoercionRaises ==
    /\ pc = "extract"
    /\ i <= Len(foaf_graph)
    /\ LET obj == foaf_graph[i].o
           raises ==
               /\ IsResource(foaf_graph[i].s) /\ IsLiteral(obj) /\ obj.dt # <<>>
               /\ IF Contains(obj.dt, T_integer) \/ Contains(obj.dt, T_int)
                  THEN ~IntParses(obj.s)
                  ELSE (Contains(obj.dt, T_float) \/ Contains(obj.dt, T_double))
                       /\ ~FloatParses(obj.s)
       IN  IF raises
           THEN /\ TransformRaises
                /\ UNCHANGED <<i, nodes, node_data>>
           ELSE /\ nodes' = AddNodes(nodes, foaf_graph[i])
                /\ node_data' = CollectProperties(node_data, foaf_graph[i])
                /\ i' = i + 1
                /\ UNCHANGED <<pc, result, transform_ret>>
    /\ UNCHANGED <<data_file, run, sys_db, lpgt_db, foaf_graph, pending,
                   node_key_map, relations, steps, server_vars, calls>>
    /\ UNCHANGED <<admin, demo_vars>>

ExtractTriple ==
    /\ pc = "extract"
    /\ i <= Len(foaf_graph)
    /\ nodes' = AddNodes(nodes, foaf_graph[i])
    /\ node_data' = CollectProperties(node_data, foaf_graph[i])
    /\ i' = i + 1
    /\ UNCHANGED <<pc, result, data_file, run, sys_db, lpgt_db, foaf_graph, pending,
                   node_key_map, relations, transform_ret, steps, server_vars,
                   calls>>
    /\ UNCHANGED <<admin, demo_vars>>

\* EndExtract that returns False when no node was found
EndExtract_RejectEmpty ==
    /\ pc = "extract"
    /\ i > Len(foaf_graph)
    /\ IF nodes = {}
       THEN /\ TransformRaises
            /\ UNCHANGED <<pending, node_key_map>>
       ELSE /\ pc' = "insert"
            /\ pending' = nodes
            /\ node_key_map' = <<>>
            /\ UNCHANGED <<result, transform_ret>>
    /\ UNCHANGED <<data_file, run, sys_db, lpgt_db, foaf_graph, i, nodes,
                   node_data, relations, steps, server_vars, calls>>
    /\ UNCHANGED <<admin, demo_vars>>

\* the extraction loop ends: node_key_map = {}, the insert loop starts
\* EndExtract after which the insert loop runs over the keys of node_data
EndExtract_SubjectsOnly ==
    /\ pc = "extract"
    /\ i > Len(foaf_graph)
    /\ pc' = "insert"
    /\ pending' = DOMAIN node_data
    /\ node_key_map' = <<>>
    /\ UNCHANGED <<result, data_file, run, sys_db, lpgt_db, foaf_graph, i, nodes,
                   node_data, relations, transform_ret, steps, server_vars,
                   calls>>
    /\ UNCHANGED <<admin, demo_vars>>

EndExtract ==
    /\ pc = "extract"
    /\ i > Len(foaf_graph)
    /\ pc' = "insert"
    /\ pending' = nodes
    /\ node_key_map' = <<>>
    /\ UNCHANGED <<result, data_file, run, sys_db, lpgt_db, foaf_graph, i, nodes,
                   node_data, relations, transform_ret, steps, server_vars,
                   calls>>
    /\ UNCHANGED <<admin, demo_vars>>

\* the server takes a document without _key, and one whose _key is a string
\* that is the key of no document of the collection
Accepts(node_doc) ==
    K_key \in DOMAIN node_doc =>
        /\ node_doc[K_key].t = "str"
        /\ node_doc[K_key].s \notin DOMAIN Node

\* node_collection.insert(node_doc) returns: the server stores the document
\* under its _key, under a generated key when it has none, and node_key_map
\* records the key
InsertReturns(node, node_doc) ==
    LET given == K_key \in DOMAIN node_doc
        key == IF given THEN node_doc[K_key].s ELSE DecStr(next_key)
    IN  /\ Node' = [k \in DOMAIN Node \cup {key} |->
                       IF k = key THEN node_doc ELSE Node[k]]
        /\ next_key' = IF given THEN next_key ELSE next_key + 1
        /\ node_key_map' = [r \in DOMAIN node_key_map \cup {node} |->
                               IF r = node THEN key ELSE node_key_map[r]]
        /\ pending' = pending \ {node}
        /\ calls' = Append(calls, Call("insert", "Node", node, <<node_doc>>, TRUE))
        /\ UNCHANGED <<pc, result, transform_ret>>

\* InsertRaises that skips the node and goes on with the loop
InsertRaises_Continue(node, node_doc) ==
    /\ calls' = Append(calls, Call("insert", "Node", node, <<node_doc>>, FALSE))
    /\ pending' = pending \ {node}
    /\ UNCHANGED <<Node, next_key, node_key_map, pc, result, transform_ret>>

\* InsertRaises that removes the documents inserted so far
InsertRaises_Rollback(node, node_doc) ==
    /\ calls' = Append(calls, Call("insert", "Node", node, <<node_doc>>, FALSE))
    /\ TransformRaises
    /\ Node' = <<>>
    /\ UNCHANGED <<next_key, node_key_map, pending>>

\* node_collection.insert(node_doc) raises: nothing is stored and
\* transform_rdf_to_lpgt returns False
InsertRaises(node, node_doc) ==
    /\ calls' = Append(calls, Call("insert", "Node", node, <<node_doc>>, FALSE))
    /\ TransformRaises
    /\ UNCHANGED <<Node, next_key, node_key_map, pending>>

\* one iteration of the insert loop, on any element of the set not yet visited
InsertNode ==
    /\ pc = "insert"
    /\ \E node \in pending, ok \in BOOLEAN :
          IF ok /\ db_exists /\ "Node" \in colls /\ Accepts(NodeDoc(node_data, node))
          THEN InsertReturns(node, NodeDoc(node_data, node))
          ELSE InsertRaises(node, NodeDoc(node_data, node))
    /\ UNCHANGED <<data_file, run, sys_db, lpgt_db, foaf_graph, i, nodes, node_data,
                   relations, steps, db_exists, colls, relation, graphs>>
    /\ UNCHANGED <<admin, demo_vars>>

\* EndInsert that leaves the insert loop while nodes are still to be inserted
EndInsert_Early ==
    /\ pc = "insert"
    /\ pc' = "relations"
    /\ i' = 1
    /\ relations' = <<>>
    /\ UNCHANGED <<result, data_file, run, sys_db, lpgt_db, foaf_graph, nodes,
                   node_data, pending, node_key_map, transform_ret, steps,
                   server_vars, calls>>
    /\ UNCHANGED <<admin, demo_vars>>

\* the insert loop ends: relations = [], the relation loop starts
EndInsert ==
    /\ pc = "insert"
    /\ pending = {}
    /\ pc' = "relations"
    /\ i' = 1
    /\ relations' = <<>>
    /\ UNCHANGED <<result, data_file, run, sys_db, lpgt_db, foaf_graph, nodes,
                   node_data, pending, node_key_map, transform_ret, steps,
                   server_vars, calls>>
    /\ UNCHANGED <<admin, demo_vars>>

\* one iteration of the relation loop
\* BuildRelation that keeps one relation document per pair of endpoints
BuildRelation_Dedup ==
    /\ pc = "relations"
    /\ i <= Len(foaf_graph)
    /\ relations' =
          IF MakesRelation(node_key_map, foaf_graph[i])
          THEN LET doc == RelationDoc(node_key_map, foaf_graph[i])
               IN  IF \E j \in 1..Len(relations) :
                         relations[j]._from = doc._from /\ relations[j]._to = doc._to
                   THEN relations
                   ELSE Append(relations, doc)
          ELSE relations
    /\ i' = i + 1
    /\ UNCHANGED <<pc, result, data_file, run, sys_db, lpgt_db, foaf_graph, nodes,
                   node_data, pending, node_key_map, transform_ret, steps,
                   server_vars, calls>>
    /\ UNCHANGED <<admin, demo_vars>>

BuildRelation ==
    /\ pc = "relations"
    /\ i <= Len(foaf_graph)
    /\ relations' = IF MakesRelation(node_key_map, foaf_graph[i])
                    THEN Append(relations, RelationDoc(node_key_map, foaf_graph[i]))
                    ELSE relations
    /\ i' = i + 1
    /\ UNCHANGED <<pc, result, data_file, run, sys_db, lpgt_db, foaf_graph, nodes,
                   node_data, pending, node_key_map, transform_ret, steps,
                   server_vars, calls>>
    /\ UNCHANGED <<admin, demo_vars>>

\* BatchIsSent without the test
BatchIsSent_Always(rels) == TRUE

\* if relations: the test that guards the insert_many call
BatchIsSent(rels) == rels # <<>>

\* the relation loop ends: insert_many when relations is not empty, return True
InsertRelations ==
    /\ pc = "relations"
    /\ i > Len(foaf_graph)
    /\ IF BatchIsSent(relations)
       THEN \E ok \in BOOLEAN :
               IF ok /\ db_exists /\ "relation" \in colls
               THEN /\ relation' = relation \o relations
                    /\ calls' = Append(calls,
                                    Call("insert_many", "relation", NoNode, relations, TRUE))
                    /\ pc' = "graph"
                    /\ transform_ret' = "True"
                    /\ UNCHANGED result
               ELSE /\ calls' = Append(calls,
                                    Call("insert_many", "relation", NoNode, relations, FALSE))
                    /\ TransformRaises
                    /\ UNCHANGED relation
       ELSE /\ pc' = "graph"
            /\ transform_ret' = "True"
            /\ UNCHANGED <<result, relation, calls>>
    /\ UNCHANGED <<data_file, run, sys_db, lpgt_db, foaf_graph, local_vars, steps,
                   db_exists, colls, Node, graphs, next_key>>
    /\ UNCHANGED <<admin, demo_vars>>

(***************************************************************************)
(* Steps 6 and 7 of create_lpgt_database.                                  *)
(***************************************************************************)
\* Step 6, create_graph_definition: has_graph, delete_graph when it exists,
\* create_graph, create_vertex_collection, create_edge_definition; fail names
\* the call that raises
\* CreateGraphDefinition that adds to a graph that exists instead of deleting it
CreateGraphDefinition_Merge ==
    /\ pc = "graph"
    /\ steps' = Append(steps, "create_graph_definition")
    /\ \E fail \in {"none", "has_graph", "create_graph",
                    "create_vertex_collection", "create_edge_definition"} :
          LET had == \E g \in graphs : g.name = GraphName
              others == {g \in graphs : g.name # GraphName}
              g0 == IF had THEN CHOOSE g \in graphs : g.name = GraphName
                    ELSE EmptyGraph(GraphName)
              g1 == WithVertexCollection(g0, "Node")
              g2 == WithEdgeDefinition(g1, "relation", {"Node"}, {"Node"})
              ops == <<"has_graph">>
                     \o (IF had THEN <<>> ELSE <<"create_graph">>)
                     \o <<"create_vertex_collection", "create_edge_definition">>
          IN  /\ fail = "create_graph" => ~had
              /\ admin' = (IF fail = "none" THEN Returned(ops)
                            ELSE RaisedAt(ops, fail))
              /\ graphs' =
                    CASE fail \in {"has_graph", "create_graph"} -> graphs
                      [] fail = "create_vertex_collection" -> others \cup {g0}
                      [] fail = "create_edge_definition" -> others \cup {g1}
                      [] fail = "none" -> others \cup {g2}
              /\ IF fail = "none"
                 THEN pc' = "verify" /\ UNCHANGED result
                 ELSE Fail
    /\ UNCHANGED <<data_file, run, sys_db, lpgt_db, foaf_graph, local_vars,
                   transform_ret, db_exists, colls, Node, relation, next_key,
                   calls>>
    /\ UNCHANGED demo_vars

CreateGraphDefinition ==
    /\ pc = "graph"
    /\ steps' = Append(steps, "create_graph_definition")
    /\ \E fail \in {"none", "has_graph", "delete_graph", "create_graph",
                    "create_vertex_collection", "create_edge_definition"} :
          LET had == \E g \in graphs : g.name = GraphName
              others == {g \in graphs : g.name # GraphName}
              g0 == EmptyGraph(GraphName)
              g1 == WithVertexCollection(g0, "Node")
              g2 == WithEdgeDefinition(g1, "relation", {"Node"}, {"Node"})
              ops == <<"has_graph">>
                     \o (IF had THEN <<"delete_graph">> ELSE <<>>)
                     \o <<"create_graph", "create_vertex_collection",
                          "create_edge_definition">>
          IN  /\ fail = "delete_graph" => had
              /\ admin' = (IF fail = "none" THEN Returned(ops)
                            ELSE RaisedAt(ops, fail))
              /\ graphs' =
                    CASE fail \in {"has_graph", "delete_graph"} -> graphs
                      [] fail = "create_graph" -> others
                      [] fail = "create_vertex_collection" -> others \cup {g0}
                      [] fail = "create_edge_definition" -> others \cup {g1}
                      [] fail = "none" -> others \cup {g2}
              /\ IF fail = "none"
                 THEN pc' = "verify" /\ UNCHANGED result
                 ELSE Fail
    /\ UNCHANGED <<data_file, run, sys_db, lpgt_db, foaf_graph, local_vars,
                   transform_ret, db_exists, colls, Node, relation, next_key,
                   calls>>
    /\ UNCHANGED demo_vars

\* Step 7, verify_lpgt_structure: True when the non-system collections are
\* exactly Node and relation and no read raises
\* the collections every database has besides those its clients create
SystemCollections == {"_graphs"}

\* c['name'] of a collection
NameText(c) ==
    CASE c = "Node" -> <<"N", "o", "d", "e">>
      [] c = "relation" -> <<"r", "e", "l", "a", "t", "i", "o", "n">>
      [] c = "Other" -> <<"O", "t", "h", "e", "r">>
      [] c = "_graphs" -> <<"_", "g", "r", "a", "p", "h", "s">>

\* name.startswith(prefix)
StartsWith(name, prefix) ==
    /\ Len(prefix) <= Len(name)
    /\ SubSeq(name, 1, Len(prefix)) = prefix

\* self.lpgt_db.collections(), and the names of those that are no system
\* collections
Collections == colls \cup SystemCollections

CollectionNames == {c \in Collections : ~StartsWith(NameText(c), <<"_">>)}

\* VerifyStructure that does not count the collections
VerifyStructure_NoCount ==
    /\ pc = "verify"
    /\ steps' = Append(steps, "verify_lpgt_structure")
    /\ \E ok \in BOOLEAN :
          /\ pc' = "done"
          /\ result' = IF /\ ok
                          /\ "Node" \in CollectionNames
                          /\ "relation" \in CollectionNames
                       THEN "True" ELSE "False"
    /\ UNCHANGED <<data_file, run, sys_db, lpgt_db, foaf_graph, local_vars,
                   transform_ret, server_vars, calls>>
    /\ UNCHANGED <<admin, demo_vars>>

VerifyStructure ==
    /\ pc = "verify"
    /\ steps' = Append(steps, "verify_lpgt_structure")
    /\ \E ok \in BOOLEAN :
          /\ pc' = "done"
          /\ result' = IF /\ ok
                          /\ "Node" \in CollectionNames
                          /\ "relation" \in CollectionNames
                          /\ Cardinality(CollectionNames) = 2
                       THEN "True" ELSE "False"
    /\ UNCHANGED <<data_file, run, sys_db, lpgt_db, foaf_graph, local_vars,
                   transform_ret, server_vars, calls>>
    /\ UNCHANGED <<admin, demo_vars>>

Next ==
    \/ Connect
    \/ LoadData
    \/ RecreateDatabase
    \/ CreateCollections
    \/ BeginTransform
    \/ ExtractTriple
    \/ EndExtract
    \/ InsertNode
    \/ EndInsert
    \/ BuildRelation
    \/ InsertRelations
    \/ CreateGraphDefinition
    \/ VerifyStructure

Spec == Init /\ [][Next]_vars

(***************************************************************************)
(* create_lpgt_database run a second time: main() builds a new             *)
(* LPGTManualCreator and calls it on the same data file, whose triples     *)
(* may come in another order, and on the server as the first run left it.  *)
(***************************************************************************)
RerunUniverse ==
    { Triple(ex_alice, foaf_name, lit_Alice),
      Triple(ex_alice, foaf_knows, ex_bob),
      Triple(ex_bob, foaf_name, lit_Bob),
      Triple(ex_bob, foaf_knows, bnode_1) }

RerunFiles == UNION { InjSeqs(RerunUniverse, n) : n \in 0..MaxRerunTriples }

InitRerun ==
    /\ InitCreator(RerunFiles)
    /\ ServerWithoutDatabase

Rerun ==
    /\ pc = "done"
    /\ run = "first"
    /\ run' = IF result = "True" THEN "after_success"
              ELSE IF transform_ret = "False" /\ Node # <<>> THEN "after_partial"
              ELSE "after_failure"
    /\ data_file' \in InjSeqs(Range(data_file), Len(data_file))
    /\ pc' = "connect"
    /\ result' = "none"
    /\ sys_db' = FALSE
    /\ lpgt_db' = FALSE
    /\ foaf_graph' = <<>>
    /\ i' = 0
    /\ nodes' = {}
    /\ node_data' = <<>>
    /\ pending' = {}
    /\ node_key_map' = <<>>
    /\ relations' = <<>>
    /\ transform_ret' = "none"
    /\ steps' = <<>>
    /\ calls' = <<>>
    /\ admin' = <<>>
    /\ UNCHANGED server_vars
    /\ UNCHANGED demo_vars

NextRerun ==
    \/ Next
    \/ Rerun

SpecRerun == InitRerun /\ [][NextRerun]_vars

(***************************************************************************)
(* Data files of typed literals: at most MaxLiteralTriples triples whose   *)
(* literals carry an integer, float, double, boolean, date or no datatype, *)
(* with a text that parses or not, under predicates with '#', with '/',    *)
(* with both and with neither; two predicates also link resources.         *)
(***************************************************************************)
LiteralUniverse ==
    { Triple(ex_alice, ex_age, lit_42),
      Triple(ex_alice, ex_age, lit_abc_integer),
      Triple(bnode_1, ex_age, lit_minus_7),
      Triple(ex_alice, ex_height, lit_3_5_int),
      Triple(ex_alice, ex_height, lit_3_14),
      Triple(ex_alice, ex_height, lit_abc_float),
      Triple(ex_alice, ex_height, lit_2_5_point),
      Triple(ex_alice, urn_active, lit_true),
      Triple(ex_alice, ex_born, lit_1999),
      Triple(ex_alice, foaf_name, lit_Al),
      Triple(ex_alice, ex_born, ex_bob),
      Triple(ex_alice, urn_active, bnode_1) }

LiteralFiles == UNION { InjSeqs(LiteralUniverse, n) : n \in 0..MaxLiteralTriples }

InitLiterals ==
    /\ InitCreator(LiteralFiles)
    /\ ServerWithoutDatabase

SpecLiterals == InitLiterals /\ [][Next]_vars

(***************************************************************************)
(* Data files of linked resources: at most MaxShapeTriples triples with    *)
(* two predicates between one pair, a self-loop, a blank node, resources   *)
(* that occur as object only, and URIs with a '#' after the last '/' and   *)
(* without '/'.                                                            *)
(***************************************************************************)
ShapeUniverse ==
    { Triple(ex_alice, foaf_knows, ex_bob),
      Triple(ex_alice, foaf_likes, ex_bob),
      Triple(ex_alice, foaf_knows, ex_alice),
      Triple(bnode_1, foaf_knows, ex_dave),
      Triple(ex_dave, foaf_name, lit_Bob),
      Triple(ex_alice, foaf_knows, urn_carol),
      Triple(ex_alice, foaf_name, lit_Al) }

ShapeFiles == UNION { InjSeqs(ShapeUniverse, n) : n \in 0..MaxShapeTriples }

InitShapes ==
    /\ InitCreator(ShapeFiles)
    /\ ServerWithoutDatabase

SpecShapes == InitShapes /\ [][Next]_vars

(***************************************************************************)
(* A server that the creator shares with another client, which may create  *)
(* a collection in the database FOAF-LPGT, or a graph of the configured    *)
(* name over its collections, while the creator runs.                      *)
(***************************************************************************)
\* a graph of the configured name that is not the one the creator defines
OtherGraph ==
    WithEdgeDefinition(EmptyGraph(GraphName), "relation", {"Other"}, {"Other"})

\* the other client creates collection Other: collections() then lists it
OtherCreatesCollection ==
    /\ db_exists
    /\ "Other" \notin colls
    /\ colls' = colls \cup {"Other"}
    /\ UNCHANGED <<pc, result, data_file, run, sys_db, lpgt_db, foaf_graph,
                   local_vars, transform_ret, steps, db_exists, Node, relation,
                   graphs, next_key, calls, admin, demo_vars>>

\* the other client creates the graph: has_graph then answers True
OtherCreatesGraph ==
    /\ db_exists
    /\ {"relation", "Other"} \subseteq colls
    /\ ~\E g \in graphs : g.name = GraphName
    /\ graphs' = graphs \cup {OtherGraph}
    /\ UNCHANGED <<pc, result, data_file, run, sys_db, lpgt_db, foaf_graph,
                   local_vars, transform_ret, steps, db_exists, colls, Node,
                   relation, next_key, calls, admin, demo_vars>>

NextShared ==
    \/ Next
    \/ OtherCreatesCollection
    \/ OtherCreatesGraph

InitShared ==
    /\ InitCreator(RerunFiles)
    /\ ServerWithoutDatabase \/ ServerWithDatabase

SpecShared == InitShared /\ [][NextShared]_vars

(***************************************************************************)
(* Data files of resources linked in cycles, and a run that goes on as     *)
(* long as it has a step to take: the interpreter executes the statements  *)
(* of create_lpgt_database one after the other, and every call on the      *)
(* server returns or raises.                                               *)
(***************************************************************************)
CycleUniverse ==
    { Triple(ex_alice, foaf_knows, ex_bob),
      Triple(ex_bob, foaf_knows, ex_alice),
      Triple(ex_alice, foaf_knows, ex_alice),
      Triple(ex_alice, foaf_name, lit_Al) }

CycleFiles == UNION { InjSeqs(CycleUniverse, n) : n \in 0..MaxCycleTriples }

InitCycles ==
    /\ InitCreator(CycleFiles)
    /\ ServerWithoutDatabase

SpecCycles == InitCycles /\ [][Next]_vars /\ WF_vars(Next)

(***************************************************************************)
(* A caller of the steps of LPGTManualCreator that may leave out           *)
(* connect_to_arango, so that DatabaseManager.recreate_database is called  *)
(* on a manager that is not connected as well as on one that is.           *)
(***************************************************************************)
InitManager ==
    /\ InitCreatorAt(RerunFiles, {"connect", "load"})
    /\ \/ ServerWithoutDatabase
       \/ ServerWithDatabase

SpecManager == InitManager /\ [][Next]_vars

(***************************************************************************)
(* FOAFDemo.run_demo (foaf_demo.py): connect, load the data file, drop and *)
(* create the databases of config.DATABASE_NAMES, then load the graph      *)
(* under three models with the mapping library.                            *)
(***************************************************************************)
\* config.DATABASE_NAMES, in the order of items()
DatabaseKeys == <<"rpt", "pgt", "lpgt">>

DatabaseName(key) ==
    CASE key = "rpt" -> "FOAF-RPT"
      [] key = "pgt" -> "FOAF-PGT"
      [] key = "lpgt" -> "FOAF-LPGT"

\* the keys of config.GRAPH_NAMES
GraphKeys == {"rpt", "pgt", "lpgt"}

\* the keys load_rpt_model, load_pgt_model and load_pgt_node_model look up
ModelKeys == <<"rpt", "pgt", "pgt_node">>

\* run_demo returns False
DemoFail ==
    /\ demo_pc' = "done"
    /\ demo_result' = "False"

\* Step 1, connect_to_arango
DemoConnect ==
    /\ demo_pc = "connect"
    /\ \E fail \in ConnectOutcomes :
          IF fail = "none"
          THEN /\ demo_pc' = "load"
               /\ UNCHANGED <<demo_result, demo_fault>>
          ELSE /\ DemoFail
               /\ demo_fault' = TRUE
    /\ UNCHANGED <<demo_i, databases, arango_rdf_instances, other_dbs, loaded>>
    /\ UNCHANGED <<data_file, foaf_graph, creator_vars, server_vars>>

\* Step 2, load_foaf_data: the graph, or None when the file is missing or
\* does not parse
DemoLoadData ==
    /\ demo_pc = "load"
    /\ \E ok \in BOOLEAN :
          IF ok
          THEN /\ foaf_graph' = data_file
               /\ demo_pc' = "create"
               /\ demo_i' = 1
               /\ UNCHANGED <<demo_result, demo_fault>>
          ELSE /\ DemoFail
               /\ demo_fault' = TRUE
               /\ UNCHANGED <<foaf_graph, demo_i>>
    /\ UNCHANGED <<databases, arango_rdf_instances, other_dbs, loaded>>
    /\ UNCHANGED <<data_file, creator_vars, server_vars>>

\* the server has the database of key
HasDatabase(key) ==
    IF key = "lpgt" THEN db_exists ELSE DatabaseName(key) \in other_dbs

\* the server drops the database of key
DropsDatabase(key) ==
    IF key = "lpgt"
    THEN Dropped /\ UNCHANGED other_dbs
    ELSE other_dbs' = other_dbs \ {DatabaseName(key)} /\ UNCHANGED server_vars

\* the server creates the database of key
CreatesDatabase(key) ==
    IF key = "lpgt"
    THEN Created /\ UNCHANGED other_dbs
    ELSE other_dbs' = other_dbs \cup {DatabaseName(key)} /\ UNCHANGED server_vars

\* Step 3, create_databases: one iteration of the loop over
\* config.DATABASE_NAMES.items(); fail names the call that raises
DemoCreateDatabase ==
    /\ demo_pc = "create"
    /\ demo_i <= Len(DatabaseKeys)
    /\ LET model_type == DatabaseKeys[demo_i]
       IN  \E fail \in {"none", "has_database", "delete_database",
                          "create_database", "ArangoRDF"} :
              /\ fail = "delete_database" => HasDatabase(model_type)
              /\ CASE fail \in {"has_database", "delete_database"} ->
                        UNCHANGED <<server_vars, other_dbs>>
                   [] fail = "create_database" -> DropsDatabase(model_type)
                   [] OTHER -> CreatesDatabase(model_type)
              /\ databases' = IF fail \in {"none", "ArangoRDF"}
                              THEN databases \cup {model_type} ELSE databases
              /\ IF fail = "none"
                 THEN /\ arango_rdf_instances' = arango_rdf_instances \cup {model_type}
                      /\ demo_i' = demo_i + 1
                      /\ demo_pc' = IF demo_i = Len(DatabaseKeys)
                                    THEN "load_rpt" ELSE "create"
                      /\ UNCHANGED <<demo_result, demo_fault>>
                 ELSE /\ DemoFail
                      /\ demo_fault' = TRUE
                      /\ UNCHANGED <<arango_rdf_instances, demo_i>>
    /\ UNCHANGED loaded
    /\ UNCHANGED <<data_file, foaf_graph, creator_vars>>

\* arango_rdf = self.arango_rdf_instances[key], then the call of the mapping
\* library with config.GRAPH_NAMES[key]: a key that is missing raises
\* KeyError, which the method turns into False as it does a failure of the
\* library; on success run_demo goes on at next, or returns ret
LoadModel(key, next, ret) ==
    IF key \in arango_rdf_instances /\ key \in GraphKeys
    THEN \E ok \in BOOLEAN :
            IF ok
            THEN /\ loaded' = loaded \cup {key}
                 /\ demo_pc' = next
                 /\ demo_result' = ret
                 /\ UNCHANGED demo_fault
            ELSE /\ DemoFail
                 /\ demo_fault' = TRUE
                 /\ UNCHANGED loaded
    ELSE /\ DemoFail
         /\ UNCHANGED <<loaded, demo_fault>>

\* Step 4, load_rpt_model
DemoLoadRpt ==
    /\ demo_pc = "load_rpt"
    /\ LoadModel(ModelKeys[1], "load_pgt", "none")
    /\ UNCHANGED <<demo_i, databases, arango_rdf_instances, other_dbs>>
    /\ UNCHANGED <<data_file, foaf_graph, creator_vars, server_vars>>

\* Step 5, load_pgt_model
DemoLoadPgt ==
    /\ demo_pc = "load_pgt"
    /\ LoadModel(ModelKeys[2], "load_pgt_node", "none")
    /\ UNCHANGED <<demo_i, databases, arango_rdf_instances, other_dbs>>
    /\ UNCHANGED <<data_file, foaf_graph, creator_vars, server_vars>>

\* Steps 6 and 7, load_pgt_node_model, then print_database_stats, which
\* catches what it raises, and return True
DemoLoadPgtNode ==
    /\ demo_pc = "load_pgt_node"
    /\ LoadModel(ModelKeys[3], "done", "True")
    /\ UNCHANGED <<demo_i, databases, arango_rdf_instances, other_dbs>>
    /\ UNCHANGED <<data_file, foaf_graph, creator_vars, server_vars>>

NextDemo ==
    \/ DemoConnect
    \/ DemoLoadData
    \/ DemoCreateDatabase
    \/ DemoLoadRpt
    \/ DemoLoadPgt
    \/ DemoLoadPgtNode

\* FOAFDemo() is constructed and run_demo called; no LPGTManualCreator runs;
\* the server may hold databases of an earlier run
InitDemo ==
    /\ CreatorAt(RerunFiles, {"idle"})
    /\ \/ ServerWithoutDatabase
       \/ ServerWithDatabase
    /\ demo_pc = "connect"
    /\ demo_result = "none"
    /\ demo_i = 0
    /\ databases = {}
    /\ arango_rdf_instances = {}
    /\ other_dbs \in SUBSET {DatabaseName("rpt"), DatabaseName("pgt")}
    /\ loaded = {}
    /\ demo_fault = FALSE

SpecDemo == InitDemo /\ [][NextDemo]_vars

(***************************************************************************)
(* Data files with literal properties whose predicate has the local name   *)
(* _label, _uri, _rdftype or _key, next to a property and a link that have *)
(* other names.                                                            *)
(***************************************************************************)
p_label == URIRef(<<"p", "/", "_", "l", "a", "b", "e", "l">>)

p_uri == URIRef(<<"p", "#", "_", "u", "r", "i">>)

p_rdftype == URIRef(<<"p", "/", "_", "r", "d", "f", "t", "y", "p", "e">>)

p_key == URIRef(<<"p", "/", "_", "k", "e", "y">>)

ReservedUniverse ==
    { Triple(ex_alice, p_label, lit_Al),
      Triple(bnode_1, p_uri, lit_Al),
      Triple(ex_alice, p_rdftype, lit_Bob),
      Triple(ex_alice, p_key, lit_Al),
      Triple(ex_bob, p_key, lit_Al),
      Triple(ex_alice, p_key, lit_42),
      Triple(ex_alice, foaf_name, lit_Al),
      Triple(ex_alice, foaf_knows, ex_bob) }

ReservedFiles == UNION { InjSeqs(ReservedUniverse, n) : n \in 0..MaxReservedTriples }

InitReserved ==
    /\ InitCreator(ReservedFiles)
    /\ ServerWithoutDatabase

SpecReserved == InitReserved /\ [][Next]_vars

(***************************************************************************)
(* Vocabulary of the properties.                                           *)
(***************************************************************************)
\* the triple set T of the run
TripleSet == Range(foaf_graph)

\* the resources that occur as subject or object of a triple of T
ResourcesOf(T) ==
    {tr.s : tr \in {x \in T : IsResource(x.s)}} \cup
    {tr.o : tr \in {x \in T : IsResource(x.o)}}

\* the positions of q whose triple has a resource as object
ResourceTriples(q) == {k \in 1..Len(q) : IsResource(q[k].o)}

\* the positions of q whose triple has a literal as object
LiteralTriples(q) == {k \in 1..Len(q) : IsLiteral(q[k].o)}

\* the single-document insert calls made on Node, and the insert_many calls
NodeInsertCalls ==
    {k \in 1..Len(calls) : calls[k].op = "insert" /\ calls[k].coll = "Node"}

BulkInsertCalls ==
    {k \in 1..Len(calls) : calls[k].op = "insert_many" /\ calls[k].coll = "relation"}

\* some insert call on Node raised
NodeInsertFailed == \E k \in NodeInsertCalls : ~calls[k].ok

\* the node extraction loop of the run has ended
ExtractionDone ==
    \/ pc \in {"insert", "relations", "graph", "verify"}
    \/ pc = "done" /\ transform_ret # "none"

\* transform_rdf_to_lpgt has come to the end of its relation loop
RelationStepDone ==
    \/ pc \in {"graph", "verify"}
    \/ pc = "done" /\ transform_ret # "none" /\ ~NodeInsertFailed

\* the positions of q whose triple sets property key on subject s
KeyTriples(q, s, key) ==
    {k \in LiteralTriples(q) : q[k].s = s /\ LocalName(q[k].p.s) = key}

\* the largest element of a non-empty set of numbers
Max(S) == CHOOSE m \in S : \A n \in S : n <= m

\* the number of triples the extraction loop has visited
Visited ==
    IF pc = "extract" THEN i - 1
    ELSE IF ExtractionDone THEN Len(foaf_graph)
    ELSE 0

\* the orders in which the triples of q can be iterated
Orderings(q) == InjSeqs(Range(q), Len(q))

\* the resource whose Node document a _from or _to value refers to
NodeOfRef(km, ref) == CHOOSE r \in DOMAIN km : NodeRef(km[r]) = ref

\* the (subject, predicate, object) edges of a list of relation documents
EdgesOf(km, rels) ==
    {<<NodeOfRef(km, rels[k]._from), rels[k].predicate, NodeOfRef(km, rels[k]._to)>> :
        k \in 1..Len(rels)}

\* the value a literal of the data files is to be stored as
ValueOf(o) == IF o = lit_42 THEN IntVal(42) ELSE StrVal(o.s)

K_name == <<"n", "a", "m", "e">>

K_knows == <<"k", "n", "o", "w", "s">>

\* the triples of the end-to-end scenario
AliceKnowsBob ==
    {Triple(ex_alice, foaf_name, lit_Alice),
     Triple(ex_alice, foaf_knows, ex_bob),
     Triple(ex_bob, foaf_name, lit_Bob)}

(***************************************************************************)
(* C1: a run of transform_rdf_to_lpgt never inserts a Node document for    *)
(* anything but a resource that is subject or object of a triple of T,     *)
(* never inserts two for one resource, and a run that returns True has     *)
(* made exactly one single-document insert per such resource, so that      *)
(* Node holds as many documents as T has resources.  Literals and URIs     *)
(* that occur only as predicate get none.                                  *)
(***************************************************************************)
C1_OneNodePerResource ==
    /\ \A k \in NodeInsertCalls :
          /\ calls[k].node \in ResourcesOf(TripleSet)
          /\ Len(calls[k].docs) = 1
          /\ \A j \in NodeInsertCalls : calls[j].node = calls[k].node => j = k
    /\ transform_ret = "True" =>
          /\ {calls[k].node : k \in NodeInsertCalls} = ResourcesOf(TripleSet)
          /\ \A k \in NodeInsertCalls : calls[k].ok
          /\ Cardinality(DOMAIN Node) = Cardinality(ResourcesOf(TripleSet))

\* a finished run on literals, an object-only blank node and a predicate
\* that is no node
C1_Witness ==
    /\ transform_ret = "True"
    /\ {Triple(ex_alice, foaf_name, lit_Alice),
        Triple(ex_alice, foaf_knows, ex_bob),
        Triple(ex_bob, foaf_knows, bnode_1)} = TripleSet
    /\ Cardinality(DOMAIN Node) = 3
    /\ foaf_knows \notin {calls[k].node : k \in NodeInsertCalls}

(***************************************************************************)
(* C2: while the relation loop runs, the relation list holds one document  *)
(* per triple already visited whose object is a URI or a blank node, and   *)
(* none for a triple whose object is a literal; after a run that returns   *)
(* True the relation collection holds as many documents as T has triples   *)
(* with a resource as object.                                              *)
(***************************************************************************)
C2_OneRelationPerResourceTriple ==
    /\ pc = "relations" =>
          Len(relations) = Cardinality({k \in ResourceTriples(foaf_graph) : k < i})
    /\ transform_ret = "True" =>
          /\ Len(relations) = Cardinality(ResourceTriples(foaf_graph))
          /\ Len(relation) = Cardinality(ResourceTriples(foaf_graph))

\* a finished run on two resource triples and a literal triple
C2_Witness ==
    /\ transform_ret = "True"
    /\ Cardinality(ResourceTriples(foaf_graph)) = 2
    /\ Cardinality(LiteralTriples(foaf_graph)) = 1
    /\ Len(relation) = 2

(***************************************************************************)
(* C3: whenever the relation loop runs, a relation document exists or      *)
(* insert_many has been called, the insert loop has visited every node,    *)
(* node_key_map holds every resource of T with the key of a stored Node    *)
(* document, so that no triple with a resource as object fails the         *)
(* membership test of the relation loop; every insert call on Node         *)
(* precedes the insert_many call and has returned.                         *)
(***************************************************************************)
C3_NodesBeforeRelations ==
    /\ (pc = "relations" \/ relations # <<>> \/ BulkInsertCalls # {}) =>
          /\ pending = {}
          /\ ResourcesOf(TripleSet) \subseteq DOMAIN node_key_map
          /\ \A r \in DOMAIN node_key_map : node_key_map[r] \in DOMAIN Node
          /\ \A k \in ResourceTriples(foaf_graph) :
                MakesRelation(node_key_map, foaf_graph[k])
    /\ \A a \in BulkInsertCalls : \A b \in NodeInsertCalls : b < a /\ calls[b].ok

\* the relation loop has built two documents over three inserted nodes
C3_Witness ==
    /\ pc = "relations"
    /\ Len(relations) = 2
    /\ Cardinality(DOMAIN node_key_map) = 3
    /\ Cardinality(DOMAIN Node) = 3

(***************************************************************************)
(* C4: once the node extraction loop has ended, every triple (s, p, o)     *)
(* with a literal object has put the local name of p as a key into the     *)
(* document of s; when s has one literal triple only with that key, the    *)
(* value is the converted literal (42 for "42"^^integer, the text for a    *)
(* plain literal).  Every inserted document is the one built for its       *)
(* resource.  On {(alice, name, "Alice"), (alice, knows, bob),             *)
(* (bob, name, "Bob")} a run that returns True leaves two Node documents,  *)
(* name "Alice" and name "Bob", and one relation alice -> bob with         *)
(* predicate_label knows.                                                  *)
(***************************************************************************)
C4_LiteralProperties ==
    /\ ExtractionDone =>
          \A k \in LiteralTriples(foaf_graph) :
             LET tr == foaf_graph[k]
                 key == LocalName(tr.p.s)
             IN  /\ tr.s \in DOMAIN node_data
                 /\ key \in DOMAIN node_data[tr.s]
                 /\ Cardinality(KeyTriples(foaf_graph, tr.s, key)) = 1 =>
                       node_data[tr.s][key] = ValueOf(tr.o)
    /\ ExtractionDone =>
          \A r \in DOMAIN node_key_map :
             Node[node_key_map[r]] = NodeDoc(node_data, r)
    /\ (transform_ret = "True" /\ TripleSet = AliceKnowsBob) =>
          /\ Cardinality(DOMAIN Node) = 2
          /\ \E ka, kb \in DOMAIN Node :
                /\ Node[ka] = SetItem(Skeleton(ex_alice), K_name, StrVal(lit_Alice.s))
                /\ Node[kb] = SetItem(Skeleton(ex_bob), K_name, StrVal(lit_Bob.s))
                /\ relation = <<[_from |-> NodeRef(ka),
                                 _to |-> NodeRef(kb),
                                 predicate |-> foaf_knows.s,
                                 predicate_label |-> K_knows,
                                 _rdftype |-> T_ObjectProperty]>>

\* the end-to-end scenario has run to the end of transform_rdf_to_lpgt
C4_Witness ==
    /\ transform_ret = "True"
    /\ TripleSet = AliceKnowsBob
    /\ Len(relation) = 1
    /\ \E ka \in DOMAIN Node : K_name \in DOMAIN Node[ka]

(***************************************************************************)
(* C5: when an insert call on Node has raised, it is the last insert call  *)
(* of the run: transform_rdf_to_lpgt has returned False, no relation       *)
(* document was built, insert_many was not called, and                     *)
(* create_lpgt_database has returned False without calling                 *)
(* create_graph_definition or verify_lpgt_structure.                       *)
(***************************************************************************)
C5_InsertFailureAborts ==
    NodeInsertFailed =>
        /\ \A k \in NodeInsertCalls : ~calls[k].ok => k = Len(calls)
        /\ transform_ret = "False"
        /\ relations = <<>>
        /\ BulkInsertCalls = {}
        /\ relation = <<>>
        /\ pc = "done"
        /\ result = "False"
        /\ Range(steps) \cap {"create_graph_definition", "verify_lpgt_structure"} = {}
        /\ graphs = {}

\* the second insert of four raised in a run that has triples to relate
C5_Witness ==
    /\ NodeInsertFailed
    /\ Len(calls) = 2
    /\ Cardinality(pending) = 3
    /\ ResourceTriples(foaf_graph) # {}

(***************************************************************************)
(* C6: when an insert call on Node has raised, the documents inserted      *)
(* before it are still in Node, unchanged, and nothing else is; the        *)
(* relation collection is empty; the call that raised was made once and    *)
(* its node has no key.                                                    *)
(***************************************************************************)
C6_NoRollbackNoRetry ==
    NodeInsertFailed =>
        /\ db_exists /\ "Node" \in colls
        /\ DOMAIN Node = {node_key_map[r] : r \in DOMAIN node_key_map}
        /\ Cardinality(DOMAIN Node) = Cardinality({k \in NodeInsertCalls : calls[k].ok})
        /\ \A r \in DOMAIN node_key_map : Node[node_key_map[r]] = NodeDoc(node_data, r)
        /\ relation = <<>>
        /\ \A k \in NodeInsertCalls : ~calls[k].ok =>
              /\ calls[k].node \notin DOMAIN node_key_map
              /\ \A j \in NodeInsertCalls : calls[j].node = calls[k].node => j = k

\* the third insert raised: two documents stay behind
C6_Witness ==
    /\ NodeInsertFailed
    /\ Cardinality(DOMAIN Node) = 2
    /\ pending # {}
    /\ result = "False"

(***************************************************************************)
(* C7: insert_many is called at most once in a run, with the whole         *)
(* relation list, which is then not empty and holds one document per       *)
(* triple with a resource as object; a run that has come to the end of     *)
(* the relation loop has called it once when T has such a triple and not   *)
(* at all when it has none.                                                *)
(***************************************************************************)
C7_SingleBulkInsert ==
    /\ Cardinality(BulkInsertCalls) <= 1
    /\ \A k \in BulkInsertCalls :
          /\ calls[k].docs = relations
          /\ calls[k].docs # <<>>
          /\ Len(calls[k].docs) = Cardinality(ResourceTriples(foaf_graph))
    /\ RelationStepDone =>
          Cardinality(BulkInsertCalls) =
              IF ResourceTriples(foaf_graph) # {} THEN 1 ELSE 0

\* one insert_many call with two documents
C7_Witness ==
    /\ RelationStepDone
    /\ \E k \in BulkInsertCalls : Len(calls[k].docs) = 2 /\ calls[k].ok
    /\ Len(relation) = 2

(***************************************************************************)
(* C8: on the empty triple set transform_rdf_to_lpgt makes no insert and   *)
(* no insert_many call, leaves both collections empty and returns True.    *)
(***************************************************************************)
C8_EmptyTripleSet ==
    (foaf_graph = <<>> /\ "transform_rdf_to_lpgt" \in Range(steps)) =>
        /\ calls = <<>>
        /\ Node = <<>>
        /\ relation = <<>>
        /\ transform_ret # "False"
        /\ pc \in {"graph", "verify", "done"} => transform_ret = "True"

\* transform_rdf_to_lpgt has returned on the empty triple set
C8_Witness ==
    /\ data_file = <<>>
    /\ foaf_graph = <<>>
    /\ pc = "graph"
    /\ transform_ret = "True"
    /\ calls = <<>>

(***************************************************************************)
(* C9: at every point of the node extraction loop and after it, a key      *)
(* that literal triples of one subject have set holds the converted value  *)
(* of the last of these triples in iteration order, whether they share     *)
(* the predicate or only its local name; the stored document holds the     *)
(* same value.                                                             *)
(***************************************************************************)
C9_LastWriteWins ==
    LET seen == SubSeq(foaf_graph, 1, Visited)
    IN  /\ \A k \in LiteralTriples(seen) :
              LET s == seen[k].s
                  key == LocalName(seen[k].p.s)
                  last == Max(KeyTriples(seen, s, key))
              IN  /\ s \in DOMAIN node_data
                  /\ key \in DOMAIN node_data[s]
                  /\ node_data[s][key] = ValueOf(seen[last].o)
                  /\ s \in DOMAIN node_key_map =>
                        Node[node_key_map[s]][key] = ValueOf(seen[last].o)

\* a run that returned True on two different names for alice: the later one
\* is stored
C9_Witness ==
    /\ transform_ret = "True"
    /\ \E a, b \in KeyTriples(foaf_graph, ex_alice, K_name) :
          /\ a < b
          /\ b = Max(KeyTriples(foaf_graph, ex_alice, K_name))
          /\ foaf_graph[a].p # foaf_graph[b].p
          /\ foaf_graph[a].o # foaf_graph[b].o
          /\ Node[node_key_map[ex_alice]][K_name] = StrVal(foaf_graph[b].o.s)

(***************************************************************************)
(* C10: when transform_rdf_to_lpgt has returned True, its nodes, node_data *)
(* and relations are those of the two loops run on the order of the        *)
(* graph, and for every other order of the same triples the loops give     *)
(* the same set of nodes, as many Node documents, as many relation         *)
(* documents and the same (subject, predicate, object) edges, which are    *)
(* the triples of T with a resource as object; the documents have the      *)
(* same keys, and a value differs only under a key that two or more        *)
(* literal triples of the subject set.                                     *)
(***************************************************************************)
C10_OrderInvariance ==
    pc = "graph" =>
        /\ nodes = ExtractNodes(foaf_graph).nodes
        /\ node_data = ExtractNodes(foaf_graph).node_data
        /\ relations = BuildRelations(node_key_map, foaf_graph)
        /\ relation = relations
        /\ EdgesOf(node_key_map, relation) =
              {<<tr.s, tr.p.s, tr.o>> : tr \in {x \in TripleSet : IsResource(x.o)}}
        /\ \A q \in Orderings(foaf_graph) :
              LET e == ExtractNodes(q)
                  rel == BuildRelations(node_key_map, q)
              IN  /\ e.nodes = nodes
                  /\ Cardinality(e.nodes) = Cardinality(DOMAIN Node)
                  /\ Len(rel) = Len(relation)
                  /\ EdgesOf(node_key_map, rel) = EdgesOf(node_key_map, relation)
                  /\ DOMAIN e.node_data = DOMAIN node_data
                  /\ \A r \in DOMAIN node_data :
                        /\ DOMAIN e.node_data[r] = DOMAIN node_data[r]
                        /\ \A key \in DOMAIN node_data[r] :
                              e.node_data[r][key] # node_data[r][key] =>
                                  Cardinality(KeyTriples(foaf_graph, r, key)) >= 2

\* a run whose triples, iterated in another order, give another value under
\* a repeated key and the same nodes and edges
C10_Witness ==
    /\ pc = "graph"
    /\ Len(relation) = 1
    /\ \E q \in Orderings(foaf_graph) :
          /\ q # foaf_graph
          /\ ExtractNodes(q).nodes = nodes
          /\ ExtractNodes(q).node_data # node_data

(***************************************************************************)
(* C11: in a first run and in a rerun alike, once the run has recreated    *)
(* the database, Node holds the documents this run inserted and no other,  *)
(* relation holds nothing but this run's list, and the database was empty  *)
(* when create_collections began; no collection is created and no insert   *)
(* made before recreate_lpgt_database.  A run that returns True, whether   *)
(* the first or one after a success, a failure or a partial load, ends     *)
(* with one Node document per resource of T and one relation document per  *)
(* triple with a resource as object.                                       *)
(***************************************************************************)
C11_RerunStartsAfresh ==
    /\ lpgt_db =>
          /\ DOMAIN Node = {node_key_map[r] : r \in DOMAIN node_key_map}
          /\ relation = <<>> \/ relation = relations
          /\ pc = "collections" =>
                colls = {} /\ Node = <<>> /\ relation = <<>> /\ graphs = {}
    /\ \A k \in 1..Len(steps) :
          steps[k] \in {"create_collections", "transform_rdf_to_lpgt"} =>
              \E j \in 1..(k - 1) : steps[j] = "recreate_lpgt_database"
    /\ calls # <<>> => lpgt_db
    /\ result = "True" =>
          /\ Cardinality(DOMAIN Node) = Cardinality(ResourcesOf(Range(data_file)))
          /\ Len(relation) = Cardinality(ResourceTriples(data_file))

\* a rerun that returns True after a run that left part of the nodes behind
C11_Witness ==
    /\ run = "after_partial"
    /\ result = "True"
    /\ Cardinality(DOMAIN Node) = 3
    /\ Len(relation) = 2

(***************************************************************************)
(* Vocabulary of the properties of typed literals.                         *)
(***************************************************************************)
\* the literal triples visited so far that no later visited triple of the
\* same subject and property key has overwritten
LastWriters ==
    {k \in LiteralTriples(foaf_graph) :
        /\ k <= Visited
        /\ \A j \in KeyTriples(foaf_graph, foaf_graph[k].s,
                                LocalName(foaf_graph[k].p.s)) :
              j <= Visited => j <= k}

\* the property of triple k holds value v in the document of its subject,
\* and in the stored document once the subject has been inserted
Holds(k, v) ==
    LET s == foaf_graph[k].s
        key == LocalName(foaf_graph[k].p.s)
    IN  /\ s \in DOMAIN node_data
        /\ key \in DOMAIN node_data[s]
        /\ node_data[s][key] = v
        /\ s \in DOMAIN node_key_map =>
              /\ node_key_map[s] \in DOMAIN Node
              /\ key \in DOMAIN Node[node_key_map[s]]
              /\ Node[node_key_map[s]][key] = v

\* the value held for the property of triple k
Held(k) == node_data[foaf_graph[k].s][LocalName(foaf_graph[k].p.s)]

IntegerTyped(o) == Contains(o.dt, T_integer) \/ Contains(o.dt, T_int)

FloatTyped(o) == Contains(o.dt, T_float) \/ Contains(o.dt, T_double)

K_age == <<"a", "g", "e">>

K_height == <<"h", "e", "i", "g", "h", "t">>

K_active == <<"u", "r", "n", ":", "a", "c", "t", "i", "v", "e">>

K_born == <<"b", "/", "b", "o", "r", "n">>

(***************************************************************************)
(* C12: a literal whose datatype text contains "integer" or "int" is held, *)
(* and stored, as an integer or else as its raw string, never as a float:  *)
(* "42" as 42 and "-7" as -7, "abc" as "abc", "3.5" as "3.5" (no float     *)
(* parse follows the failed integer parse), and "2.5" of a datatype whose  *)
(* text contains both "int" and "float" as "2.5" (the integer test comes   *)
(* first).                                                                 *)
(***************************************************************************)
C12_IntegerCoercion ==
    \A k \in LastWriters :
        LET o == foaf_graph[k].o
        IN  IntegerTyped(o) =>
              /\ Holds(k, Held(k))
              /\ Held(k).t \in {"int", "str"}
              /\ Held(k).t = "str" => Held(k) = StrVal(o.s)
              /\ o = lit_42 => Held(k) = IntVal(42)
              /\ o = lit_minus_7 => Held(k) = IntVal(0 - 7)
              /\ o = lit_abc_integer => Held(k) = StrVal(<<"a", "b", "c">>)
              /\ o = lit_3_5_int => Held(k) = StrVal(<<"3", ".", "5">>)
              /\ o = lit_2_5_point => Held(k) = StrVal(<<"2", ".", "5">>)

\* a successful run that stored age 42 and height "3.5" of type int
C12_Witness ==
    /\ result = "True"
    /\ \E key \in DOMAIN Node :
          /\ {K_age, K_height} \subseteq DOMAIN Node[key]
          /\ Node[key][K_age] = IntVal(42)
          /\ Node[key][K_height] = StrVal(<<"3", ".", "5">>)

(***************************************************************************)
(* C13: a literal whose datatype text contains "float" or "double" and     *)
(* neither "integer" nor "int" is held, and stored, as a floating-point    *)
(* number or else as its raw string: "3.14" of type double as 3.14         *)
(* (314 / 10^2), "abc" of type float as "abc".                             *)
(***************************************************************************)
C13_FloatCoercion ==
    \A k \in LastWriters :
        LET o == foaf_graph[k].o
        IN  FloatTyped(o) /\ ~IntegerTyped(o) =>
              /\ Holds(k, Held(k))
              /\ Held(k).t \in {"float", "str"}
              /\ Held(k).t = "str" => Held(k) = StrVal(o.s)
              /\ o = lit_3_14 => Held(k) = FloatVal(<<314, 2>>)
              /\ o = lit_abc_float => Held(k) = StrVal(<<"a", "b", "c">>)

\* a successful run that stored height 3.14
C13_Witness ==
    /\ result = "True"
    /\ \E key \in DOMAIN Node :
          /\ K_height \in DOMAIN Node[key]
          /\ Node[key][K_height] = FloatVal(<<314, 2>>)

(***************************************************************************)
(* C14: a literal without datatype, or whose datatype text contains none   *)
(* of "integer", "int", "float", "double", is held, and stored, as its raw *)
(* string: "Al" without datatype, "true" of type boolean, and "1999" of    *)
(* type date, whose text would parse as a number.                          *)
(***************************************************************************)
C14_RawString ==
    \A k \in LastWriters :
        LET o == foaf_graph[k].o
        IN  ~IntegerTyped(o) /\ ~FloatTyped(o) =>
              /\ Holds(k, StrVal(o.s))
              /\ o = lit_Al => Held(k) = StrVal(<<"A", "l">>)
              /\ o = lit_true => Held(k) = StrVal(<<"t", "r", "u", "e">>)
              /\ o = lit_1999 => Held(k) = StrVal(<<"1", "9", "9", "9">>)

\* a successful run that stored the boolean and the date as strings
C14_Witness ==
    /\ result = "True"
    /\ \E key \in DOMAIN Node :
          /\ {K_active, K_born} \subseteq DOMAIN Node[key]
          /\ Node[key][K_active] = StrVal(<<"t", "r", "u", "e">>)
          /\ Node[key][K_born] = StrVal(<<"1", "9", "9", "9">>)

\* the literals of the data files whose text does not parse under their datatype
Malformed == {lit_abc_integer, lit_3_5_int, lit_abc_float, lit_2_5_point}

(***************************************************************************)
(* C15: a literal whose text does not parse under its datatype does not    *)
(* end the run: while the extraction loop runs nothing has been returned,  *)
(* every visited triple with such a literal has left its property as the   *)
(* string of the literal (until a later triple sets the key again), the    *)
(* loop comes to its end with every subject in node_data, and when         *)
(* transform_rdf_to_lpgt returns False a call on a collection has raised.  *)
(***************************************************************************)
C15_CoercionFailureAbsorbed ==
    /\ pc = "extract" => transform_ret = "none" /\ result = "none"
    /\ \A k \in LastWriters :
          foaf_graph[k].o \in Malformed => Holds(k, StrVal(foaf_graph[k].o.s))
    /\ transform_ret # "none" =>
          /\ Visited = Len(foaf_graph)
          /\ \A k \in LiteralTriples(foaf_graph) : foaf_graph[k].s \in DOMAIN node_data
    /\ transform_ret = "False" => \E c \in 1..Len(calls) : ~calls[c].ok

\* a run on two unparsable literals that returned True with both as strings
C15_Witness ==
    /\ result = "True"
    /\ transform_ret = "True"
    /\ \A k \in 1..Len(foaf_graph) : foaf_graph[k].o \in Malformed
    /\ \E key \in DOMAIN Node :
          /\ {K_age, K_height} \subseteq DOMAIN Node[key]
          /\ Node[key][K_age] = StrVal(<<"a", "b", "c">>)
          /\ Node[key][K_height].t = "str"

\* n is the text of u after a c that no further c follows
IsTextAfterLast(n, u, c) ==
    \E k \in 1..Len(u) :
        /\ u[k] = c
        /\ n = SubSeq(u, k + 1, Len(u))
        /\ \A j \in 1..Len(n) : n[j] # c

\* n is the local name of the URI text u
IsLocalNameOf(n, u) ==
    IF \E k \in 1..Len(u) : u[k] = "#" THEN IsTextAfterLast(n, u, "#")
    ELSE IF \E k \in 1..Len(u) : u[k] = "/" THEN IsTextAfterLast(n, u, "/")
    ELSE n = u

\* the relation documents built so far and those stored
RelationDocs == Range(relations) \cup Range(relation)

(***************************************************************************)
(* C16: the key under which a visited literal triple leaves its property   *)
(* is the local name of its predicate, and so is the predicate_label of    *)
(* every relation document: the text after the last '#' when the predicate *)
(* has one ("a#b/born" gives "b/born", "o/w#age" gives "age"), otherwise   *)
(* the text after the last '/' ("f/height" gives "height"), otherwise the  *)
(* whole text ("urn:active").  A predicate that occurs with a literal and  *)
(* with a resource gives one string in both places.                        *)
(***************************************************************************)
C16_LocalNameRule ==
    /\ \A k \in LiteralTriples(foaf_graph) :
          k <= Visited =>
             LET tr == foaf_graph[k]
             IN  /\ \E key \in DOMAIN node_data[tr.s] : IsLocalNameOf(key, tr.p.s)
                 /\ tr.p = ex_born => K_born \in DOMAIN node_data[tr.s]
                 /\ tr.p = ex_age => K_age \in DOMAIN node_data[tr.s]
                 /\ tr.p = ex_height => K_height \in DOMAIN node_data[tr.s]
                 /\ tr.p = urn_active => K_active \in DOMAIN node_data[tr.s]
                 /\ \A r \in RelationDocs :
                       r.predicate = tr.p.s =>
                           r.predicate_label \in DOMAIN node_data[tr.s]
    /\ \A r \in RelationDocs :
          /\ IsLocalNameOf(r.predicate_label, r.predicate)
          /\ r.predicate = ex_born.s => r.predicate_label = K_born
          /\ r.predicate = urn_active.s => r.predicate_label = K_active

\* one predicate with '#' and '/' on a literal and on a resource: the key
\* of the stored property is the predicate_label of the stored relation
C16_Witness ==
    /\ result = "True"
    /\ Range(foaf_graph) =
          {Triple(ex_alice, ex_born, lit_1999), Triple(ex_alice, ex_born, ex_bob)}
    /\ Len(relation) = 1
    /\ relation[1].predicate_label = K_born
    /\ \E key \in DOMAIN Node : K_born \in DOMAIN Node[key]

(***************************************************************************)
(* Vocabulary of the properties of linked resources.                       *)
(***************************************************************************)
\* the resources that are subject of a triple of T
SubjectsOf(T) == {tr.s : tr \in T}

\* the documents made for resource r: the one of the extraction loop and
\* the stored one
DocsOf(r) ==
    (IF r \in DOMAIN node_data THEN {node_data[r]} ELSE {}) \cup
    (IF r \in DOMAIN node_key_map THEN {Node[node_key_map[r]]} ELSE {})

\* n is the label of resource r: for a URI the text after its last '/',
\* the whole text when it has none; for a blank node its identifier
IsLabelOf(n, r) ==
    IF r.kind = "URIRef" /\ \E k \in 1..Len(r.s) : r.s[k] = "/"
    THEN IsTextAfterLast(n, r.s, "/")
    ELSE n = r.s

StoredNodes == {<<r, Node[node_key_map[r]]>> : r \in DOMAIN node_key_map}

\* the _uri of document doc is the URI of r, None exactly when r is a blank node
UriFieldOf(doc, r) ==
    /\ K_uri \in DOMAIN doc
    /\ r.kind = "URIRef" => doc[K_uri] = StrVal(r.s)
    /\ r.kind = "BNode" <=> doc[K_uri] = NoneVal

SkeletonKeys == {K_uri, K_label, K_rdftype}

(***************************************************************************)
(* C19: a resource that is object of a triple of T and subject of none is  *)
(* stored as a document of _uri, _label and _rdftype and nothing else; a   *)
(* run that returns True has made one insert call and stored one document  *)
(* for it as for every resource.  Every further key of a document made for *)
(* a resource is the local name of the predicate of a literal triple of    *)
(* which the resource is the subject: none comes from a triple of which it *)
(* is the object.                                                          *)
(***************************************************************************)
C19_ObjectOnlySkeleton ==
    /\ \A r \in DOMAIN node_key_map \ SubjectsOf(TripleSet) :
          LET doc == Node[node_key_map[r]]
          IN  /\ DOMAIN doc = SkeletonKeys
              /\ UriFieldOf(doc, r)
              /\ IsLabelOf(doc[K_label].s, r)
              /\ doc[K_rdftype] = StrVal(IF r.kind = "URIRef" THEN T_URIRef ELSE T_BNode)
    /\ transform_ret = "True" =>
          \A r \in ResourcesOf(TripleSet) :
              /\ r \in DOMAIN node_key_map
              /\ Cardinality({c \in NodeInsertCalls : calls[c].node = r}) = 1
              /\ Cardinality({key \in DOMAIN Node : key = node_key_map[r]}) = 1
              /\ \A q \in DOMAIN node_key_map :
                    node_key_map[q] = node_key_map[r] => q = r
    /\ \A r \in DOMAIN node_data \cup DOMAIN node_key_map :
          \A doc \in DocsOf(r) :
              /\ SkeletonKeys \subseteq DOMAIN doc
              /\ \A key \in DOMAIN doc \ SkeletonKeys :
                    \E k \in LiteralTriples(foaf_graph) :
                        /\ foaf_graph[k].s = r
                        /\ IsLocalNameOf(key, foaf_graph[k].p.s)

\* alice has a name and knows bob, who is subject of nothing: bob is stored
\* as a skeleton, the name is on alice
C19_Witness ==
    /\ result = "True"
    /\ {Triple(ex_alice, foaf_name, lit_Al), Triple(ex_alice, foaf_knows, ex_bob)}
          \subseteq TripleSet
    /\ ex_bob \notin SubjectsOf(TripleSet)
    /\ DOMAIN Node[node_key_map[ex_bob]] = SkeletonKeys
    /\ K_name \in DOMAIN Node[node_key_map[ex_alice]]

\* the reference to the stored document of resource r
RefOf(r) == <<"N", "o", "d", "e", "/">> \o node_key_map[r]

\* relation document d is the record of triple tr
IsRecordOf(d, tr) ==
    /\ d._from = RefOf(tr.s)
    /\ d._to = RefOf(tr.o)
    /\ d.predicate = tr.p.s
    /\ IsLocalNameOf(d.predicate_label, tr.p.s)
    /\ d._rdftype = <<"O", "b", "j", "e", "c", "t", "P", "r", "o", "p", "e", "r", "t", "y">>

\* ref refers to a stored Node document
RefersToNode(ref) == \E key \in DOMAIN Node : ref = <<"N", "o", "d", "e", "/">> \o key

(***************************************************************************)
(* C20: after transform_rdf_to_lpgt has returned True, the stored relation *)
(* documents and the triples of T with a resource as object correspond one *)
(* to one: every such triple (s, p, o) has exactly one document, with      *)
(* _from and _to the references to the stored documents of s and of o,     *)
(* predicate the text of p, predicate_label its local name and _rdftype    *)
(* "ObjectProperty", and every document is the record of exactly one such  *)
(* triple.  Two predicates between one pair give two documents, a triple   *)
(* with s = o gives a document with _from = _to, and every _from and _to   *)
(* refers to a stored Node document, that of its resource.                 *)
(***************************************************************************)
C20_RelationRecords ==
    transform_ret = "True" =>
        LET RT == {tr \in TripleSet : IsResource(tr.o)}
            Recs == 1..Len(relation)
        IN  /\ Len(relation) = Cardinality(RT)
            /\ \A tr \in RT :
                  /\ {tr.s, tr.o} \subseteq DOMAIN node_key_map
                  /\ Cardinality({j \in Recs : IsRecordOf(relation[j], tr)}) = 1
                  /\ UriFieldOf(Node[node_key_map[tr.s]], tr.s)
                  /\ UriFieldOf(Node[node_key_map[tr.o]], tr.o)
                  /\ IsLabelOf(Node[node_key_map[tr.s]][K_label].s, tr.s)
                  /\ IsLabelOf(Node[node_key_map[tr.o]][K_label].s, tr.o)
            /\ \A j \in Recs :
                  /\ Cardinality({tr \in RT : IsRecordOf(relation[j], tr)}) = 1
                  /\ RefersToNode(relation[j]._from)
                  /\ RefersToNode(relation[j]._to)

\* a successful run on two predicates from alice to bob and a self-loop on
\* alice: three documents, two with the same endpoints, one with _from = _to
C20_Witness ==
    /\ result = "True"
    /\ TripleSet = {Triple(ex_alice, foaf_knows, ex_bob),
                     Triple(ex_alice, foaf_likes, ex_bob),
                     Triple(ex_alice, foaf_knows, ex_alice)}
    /\ Len(relation) = 3
    /\ \E j \in 1..3 : relation[j]._from = relation[j]._to
    /\ \E j, k \in 1..3 :
          /\ j # k
          /\ relation[j]._from = relation[k]._from
          /\ relation[j]._to = relation[k]._to
          /\ relation[j].predicate # relation[k].predicate

(***************************************************************************)
(* Vocabulary of the properties of the steps on the server.                *)
(***************************************************************************)
\* the positions of log at which op was called
CallsOf(log, op) == {k \in 1..Len(log) : log[k].op = op}

\* every call of log returned
AllReturned(log) == \A k \in 1..Len(log) : log[k].ok

\* the graphs of the configured name
NamedGraphs(gs) == {g \in gs : g.name = "foaf_lpgt_graph"}

\* the one edge definition of the LPGT graph
NodeToNode ==
    [edge_collection |-> "relation",
     from_vertex_collections |-> {"Node"},
     to_vertex_collections |-> {"Node"}]

(***************************************************************************)
(* C21: every execution of create_graph_definition that returns True ends  *)
(* with exactly one graph of the configured name, whose edge definitions   *)
(* are the one of relation from Node to Node and nothing of the graph that *)
(* was there before; when has_graph has answered that a graph of the name  *)
(* exists, delete_graph is called once, before create_graph, and when it   *)
(* has answered that none exists, delete_graph is not called.              *)
(***************************************************************************)
C21_GraphReplaced ==
    [][pc = "graph" /\ pc' # "graph" =>
          /\ pc' = "verify" =>
                /\ Cardinality(NamedGraphs(graphs')) = 1
                /\ \A g \in NamedGraphs(graphs') :
                      /\ g.edge_definitions = {NodeToNode}
                      /\ g.orphan_collections = {}
                /\ AllReturned(admin')
                /\ Cardinality(CallsOf(admin', "create_graph")) = 1
          /\ (NamedGraphs(graphs) # {} /\ Len(admin') > 1) =>
                /\ Cardinality(CallsOf(admin', "delete_graph")) = 1
                /\ \A d \in CallsOf(admin', "delete_graph") :
                      \A c \in CallsOf(admin', "create_graph") : d < c
          /\ NamedGraphs(graphs) = {} => CallsOf(admin', "delete_graph") = {}
      ]_vars

\* create_graph_definition has returned True after deleting the graph that
\* the other client had created
C21_Witness ==
    /\ pc = "verify"
    /\ CallsOf(admin, "delete_graph") # {}
    /\ \A g \in NamedGraphs(graphs) : g.edge_definitions = {NodeToNode}
    /\ Cardinality(NamedGraphs(graphs)) = 1

(***************************************************************************)
(* C22: every execution of verify_lpgt_structure in a database whose       *)
(* collections, the system collections aside, are not exactly Node and     *)
(* relation returns False, and create_lpgt_database then returns False;    *)
(* whatever it returns, the execution leaves the documents of Node and of  *)
(* relation, the collections and the graph definitions as they were.       *)
(***************************************************************************)
C22_VerifyOnlyReports ==
    [][pc = "verify" /\ pc' # "verify" =>
          /\ colls # {"Node", "relation"} => result' = "False" /\ pc' = "done"
          /\ Node' = Node
          /\ relation' = relation
          /\ graphs' = graphs
          /\ colls' = colls
          /\ db_exists' = db_exists
          /\ calls' = calls
      ]_vars

\* the run has ended with failure in the verification of a database that
\* holds a third collection, with two stored nodes, their relation and the graph
C22_Witness ==
    /\ result = "False"
    /\ steps # <<>>
    /\ steps[Len(steps)] = "verify_lpgt_structure"
    /\ colls = {"Node", "relation", "Other"}
    /\ Cardinality(DOMAIN Node) = 2
    /\ Len(relation) = 1
    /\ Cardinality(NamedGraphs(graphs)) = 1

(***************************************************************************)
(* C23: when load_foaf_data returns None (no data file, or a file that     *)
(* does not parse), create_lpgt_database returns False at once: the server *)
(* is as it was, with the database FOAF-LPGT an earlier run has left, no   *)
(* collection has been created, no document inserted and no graph defined, *)
(* and after the return no step runs.                                      *)
(***************************************************************************)
C23_SourceUnavailable ==
    [][/\ pc = "load" /\ pc' = "done" =>
             /\ result' = "False"
             /\ steps' = <<"connect_to_arango", "load_foaf_data">>
             /\ UNCHANGED server_vars
             /\ calls' = <<>>
             /\ lpgt_db' = FALSE
             /\ transform_ret' = "none"
             /\ CallsOf(admin', "delete_database") = {}
             /\ CallsOf(admin', "create_database") = {}
       /\ pc = "done" => pc' = "done" /\ UNCHANGED <<server_vars, steps, calls>>
      ]_vars

\* the run has ended at load_foaf_data and the database of an earlier run
\* is in place
C23_Witness ==
    /\ result = "False"
    /\ steps = <<"connect_to_arango", "load_foaf_data">>
    /\ db_exists
    /\ Node = StaleNode
    /\ colls = {"Node", "relation"}
    /\ graphs = {LpgtGraph}
    /\ calls = <<>>

\* the seven steps of create_lpgt_database
StepOrder ==
    <<"connect_to_arango", "load_foaf_data", "recreate_lpgt_database",
      "create_collections", "transform_rdf_to_lpgt", "create_graph_definition",
      "verify_lpgt_structure">>

(***************************************************************************)
(* C24: the steps create_lpgt_database has called are always the first     *)
(* steps of connect, load, recreate database, create collections,          *)
(* transform, define graph, verify, in this order; a step has been called  *)
(* only when the steps before it have left their result (the connection,   *)
(* the loaded triples, the new database, the two collections, True from    *)
(* the transformation with Node and relation populated, the graph); once   *)
(* the run has returned it is at its end, a run that returns True has      *)
(* called all seven, and a graph exists in the new database only when the  *)
(* transformation has returned True.                                       *)
(***************************************************************************)
C24_SevenStepsInOrder ==
    LET n == Len(steps)
    IN  /\ n <= Len(StepOrder)
        /\ \A k \in 1..n : steps[k] = StepOrder[k]
        /\ result # "none" <=> pc = "done"
        /\ result = "True" => steps = StepOrder
        /\ n >= 2 => sys_db
        /\ n >= 3 => foaf_graph = data_file
        /\ n >= 4 => lpgt_db /\ db_exists
        /\ n >= 5 => colls = {"Node", "relation"}
        /\ n >= 6 =>
              /\ transform_ret = "True"
              /\ Cardinality(DOMAIN Node) = Cardinality(ResourcesOf(TripleSet))
              /\ Len(relation) = Cardinality(ResourceTriples(foaf_graph))
        /\ n >= 7 => \A g \in NamedGraphs(graphs) : g.edge_definitions = {NodeToNode}
        /\ n >= 7 => NamedGraphs(graphs) # {}
        /\ (lpgt_db /\ graphs # {}) => transform_ret = "True" /\ n >= 6
        /\ (result = "False" /\ n = 5) => transform_ret = "False"

\* a run that returned True after its seven steps, on three resources
C24_Witness ==
    /\ result = "True"
    /\ steps = StepOrder
    /\ Cardinality(DOMAIN Node) = 3
    /\ Len(relation) = 2
    /\ graphs = {LpgtGraph}

\* a step of a loop goes to the next element, and a loop ends after the last
SinglePass ==
    /\ (pc \in {"extract", "relations"} /\ pc' = pc) =>
          i <= Len(foaf_graph) /\ i' = i + 1
    /\ (pc \in {"extract", "relations"} /\ pc' \in {"insert", "graph"}) =>
          i = Len(foaf_graph) + 1
    /\ (pc = "transform" /\ pc' = "extract") => i' = 1
    /\ (pc = "insert" /\ pc' = "relations") => i' = 1 /\ pending = {}
    /\ (pc = "insert" /\ pc' = "insert") =>
          /\ pending' \subseteq pending
          /\ Cardinality(pending') = Cardinality(pending) - 1

(***************************************************************************)
(* C25: once transform_rdf_to_lpgt has been called it returns True or      *)
(* False, also on triples that link resources in a cycle or to             *)
(* themselves.  Each of its two loops over the triples goes from a triple  *)
(* to the next in the iteration order, whatever the object of the triple,  *)
(* and ends after the last; the insert loop takes one node from those not  *)
(* yet visited at every step.                                              *)
(***************************************************************************)
C25_TransformTerminates ==
    /\ (pc = "transform") ~> (transform_ret \in {"True", "False"})
    /\ [][SinglePass]_vars

\* transform_rdf_to_lpgt has returned True on a cycle of two resources and a
\* self-loop
C25_Witness ==
    /\ transform_ret = "True"
    /\ TripleSet = {Triple(ex_alice, foaf_knows, ex_bob),
                     Triple(ex_bob, foaf_knows, ex_alice),
                     Triple(ex_alice, foaf_knows, ex_alice)}
    /\ Len(relation) = 3
    /\ Cardinality(DOMAIN Node) = 2

(***************************************************************************)
(* Vocabulary of the properties of resources that are subject and object.  *)
(***************************************************************************)
\* the resources that are subject of a triple of T and object of a triple of T
SubjectAndObject(T) == SubjectsOf(T) \cap {tr.o : tr \in T}

\* doc has, for every literal triple of subject r, the value of the last such
\* triple of the same key under the key
CarriesProperties(doc, r) ==
    \A k \in LiteralTriples(foaf_graph) :
        foaf_graph[k].s = r =>
            LET key == LocalName(foaf_graph[k].p.s)
                last == Max(KeyTriples(foaf_graph, r, key))
            IN  /\ key \in DOMAIN doc
                /\ doc[key] = Coerce(foaf_graph[last].o)

(***************************************************************************)
(* C26: a resource that is subject of a triple of T and object of a triple *)
(* of T (of the same triple too) has, once the extraction loop has ended,  *)
(* one document of all the literal properties of the triples of which it   *)
(* is the subject, in whichever order the triples were met.  At most one   *)
(* insert call is made for it, with that document; a run of                *)
(* transform_rdf_to_lpgt that returns True has made exactly one and stored *)
(* exactly one record for it, under the key node_key_map holds.            *)
(***************************************************************************)
C26_SubjectAndObject ==
    \A r \in SubjectAndObject(TripleSet) :
        /\ ExtractionDone =>
              /\ r \in nodes
              /\ r \in DOMAIN node_data
              /\ CarriesProperties(node_data[r], r)
        /\ \A c \in NodeInsertCalls :
              calls[c].node = r =>
                  /\ calls[c].docs = <<node_data[r]>>
                  /\ CarriesProperties(calls[c].docs[1], r)
                  /\ \A d \in NodeInsertCalls : calls[d].node = r => d = c
        /\ r \in DOMAIN node_key_map =>
              /\ node_key_map[r] \in DOMAIN Node
              /\ CarriesProperties(Node[node_key_map[r]], r)
        /\ transform_ret = "True" =>
              /\ Cardinality({c \in NodeInsertCalls : calls[c].node = r}) = 1
              /\ r \in DOMAIN node_key_map
              /\ \A q \in DOMAIN node_key_map :
                    node_key_map[q] = node_key_map[r] => q = r
              /\ r.kind = "URIRef" =>
                    {key \in DOMAIN Node : Node[key][K_uri] = StrVal(r.s)}
                        = {node_key_map[r]}

\* dave is met as the object of a triple and then as the subject of a literal
\* triple, alice as subject and object of one triple: one record each, dave's
\* with the name
C26_Witness ==
    /\ result = "True"
    /\ foaf_graph = <<Triple(bnode_1, foaf_knows, ex_dave),
                      Triple(ex_dave, foaf_name, lit_Bob),
                      Triple(ex_alice, foaf_knows, ex_alice)>>
    /\ Node[node_key_map[ex_dave]][K_name] = StrVal(lit_Bob.s)
    /\ Cardinality(DOMAIN Node) = 3

\* dave is met as the subject of a literal triple and then as an object
C26_WitnessSubjectFirst ==
    /\ result = "True"
    /\ foaf_graph = <<Triple(ex_dave, foaf_name, lit_Bob),
                      Triple(bnode_1, foaf_knows, ex_dave)>>
    /\ Node[node_key_map[ex_dave]][K_name] = StrVal(lit_Bob.s)
    /\ Cardinality(DOMAIN Node) = 2

(***************************************************************************)
(* Vocabulary of the properties of DatabaseManager.recreate_database.      *)
(***************************************************************************)
\* op was called in log and returned
Returns(log, op) == \E k \in CallsOf(log, op) : log[k].ok

\* every call of a in log is before every call of b
Before(log, a, b) == \A j \in CallsOf(log, a), k \in CallsOf(log, b) : j < k

\* the server holds the database, with nothing in it
FreshDatabase ==
    /\ db_exists' /\ colls' = {} /\ Node' = <<>> /\ relation' = <<>> /\ graphs' = {}

(***************************************************************************)
(* C27: a call of recreate_database calls connect_to_system_db, first,     *)
(* exactly when sys_db is not set; it calls delete_database exactly when   *)
(* has_database returned and the database exists; create_database is       *)
(* called after has_database and after the delete if there is one, and     *)
(* only when they returned; every call is made at most once and none after *)
(* a call that raised.  When all calls return the handle is set and the    *)
(* database exists and is empty.  When a call raises no handle is set and  *)
(* recreate_lpgt_database reports the failure; a failure before the delete *)
(* leaves the server as it was, and when create_database raises after      *)
(* delete_database returned the database no longer exists.                 *)
(***************************************************************************)
C27_RecreateDatabase ==
    [][pc = "recreate" =>
         LET log == admin'
             ok == AllReturned(log)
         IN  /\ pc' \in {"collections", "done"}
             /\ log # <<>>
             /\ \A k \in 1..(Len(log) - 1) : log[k].ok
             /\ \A j, k \in 1..Len(log) : log[j].op = log[k].op => j = k
             /\ ~sys_db => log[1].op = "connect_to_system_db"
             /\ sys_db => CallsOf(log, "connect_to_system_db") = {}
             /\ Returns(log, "connect_to_system_db") \/ sys_db =>
                   CallsOf(log, "has_database") # {}
             /\ CallsOf(log, "delete_database") # {} <=>
                   Returns(log, "has_database") /\ db_exists
             /\ CallsOf(log, "create_database") # {} <=>
                   /\ Returns(log, "has_database")
                   /\ db_exists => Returns(log, "delete_database")
             /\ CallsOf(log, "connect_to_database") # {} <=>
                   Returns(log, "create_database")
             /\ Before(log, "connect_to_system_db", "has_database")
             /\ Before(log, "has_database", "delete_database")
             /\ Before(log, "has_database", "create_database")
             /\ Before(log, "delete_database", "create_database")
             /\ Before(log, "create_database", "connect_to_database")
             /\ ok <=> Returns(log, "connect_to_database")
             /\ ok => /\ pc' = "collections" /\ result' = "none"
                      /\ lpgt_db'
                      /\ FreshDatabase
             /\ ~ok => /\ pc' = "done" /\ result' = "False"
                       /\ lpgt_db' = lpgt_db /\ ~lpgt_db'
             /\ CallsOf(log, "create_database") = {} /\
                   ~Returns(log, "delete_database") =>
                   UNCHANGED server_vars
             /\ (/\ Returns(log, "delete_database")
                 /\ \E k \in CallsOf(log, "create_database") : ~log[k].ok) =>
                   ~db_exists' /\ colls' = {} /\ Node' = <<>> /\ graphs' = {}
             /\ Returns(log, "create_database") => FreshDatabase
      ]_vars

\* recreate_database was called on a manager that was not connected, on a
\* server that held the database: it connected, deleted the database, and
\* create_database raised; the database is gone and no handle is set
C27_Witness ==
    /\ pc = "done" /\ result = "False"
    /\ steps = <<"load_foaf_data", "recreate_lpgt_database">>
    /\ admin = <<AdminCall("connect_to_system_db", TRUE),
                 AdminCall("has_database", TRUE),
                 AdminCall("delete_database", TRUE),
                 AdminCall("create_database", FALSE)>>
    /\ ~db_exists /\ ~lpgt_db /\ sys_db

(***************************************************************************)
(* C28: a run of run_demo in which the connection, the data load, every    *)
(* call of has_database, delete_database and create_database and every     *)
(* call of the mapping library returned has loaded the graph under the     *)
(* three models and returns True; and every key the load methods look up   *)
(* is a key create_databases has registered when it returned True.         *)
(***************************************************************************)
C28_DemoLoadsThreeModels ==
    /\ demo_pc = "done" /\ ~demo_fault =>
          /\ demo_result = "True"
          /\ loaded = Range(ModelKeys)
    /\ demo_pc \in {"load_rpt", "load_pgt", "load_pgt_node"} =>
          Range(ModelKeys) \subseteq arango_rdf_instances

\* run_demo has returned False though nothing it called failed
C28_FailsWithoutFault ==
    /\ demo_pc = "done" /\ demo_result = "False" /\ ~demo_fault
    /\ loaded = {"rpt", "pgt"}
    /\ arango_rdf_instances = Range(DatabaseKeys)

\* run_demo never returns True
C28_NeverTrue == demo_result # "True"

(***************************************************************************)
(* Vocabulary of the properties of the skeleton fields.                    *)
(***************************************************************************)
\* the documents made for resource r: the one of the extraction loop, those
\* passed to insert, and the stored one
AllDocsOf(r) ==
    DocsOf(r) \cup {calls[c].docs[1] : c \in {k \in NodeInsertCalls : calls[k].node = r}}

(***************************************************************************)
(* C29: in every document made for a resource, _uri is the URI of the      *)
(* resource (None for a blank node), _label is the label derived from the  *)
(* resource and _rdftype its kind, whatever literal triples the resource   *)
(* is the subject of; and no document has an attribute _key.               *)
(***************************************************************************)
C29_SkeletonFieldsFixed ==
    \A r \in DOMAIN node_data \cup DOMAIN node_key_map :
        \A doc \in AllDocsOf(r) :
            /\ UriFieldOf(doc, r)
            /\ doc[K_label].t = "str" /\ IsLabelOf(doc[K_label].s, r)
            /\ doc[K_rdftype] = StrVal(IF r.kind = "URIRef" THEN T_URIRef ELSE T_BNode)
            /\ K_key \notin DOMAIN doc

\* the stored document of alice is labelled with the value of a literal
C29_LabelOverwritten ==
    /\ result = "True"
    /\ foaf_graph = <<Triple(ex_alice, p_label, lit_Al)>>
    /\ Node[node_key_map[ex_alice]][K_label] = StrVal(lit_Al.s)

\* the document of alice is stored under the value of a literal, and the
\* insert of the document of bob, which has the same, raises
C29_KeyTaken ==
    /\ result = "False"
    /\ TripleSet = {Triple(ex_alice, p_key, lit_Al), Triple(ex_bob, p_key, lit_Al)}
    /\ DOMAIN Node = {lit_Al.s}
    /\ \E c \in NodeInsertCalls : ~calls[c].ok

(***************************************************************************)
(* Vocabulary of the properties of predicates that share a local name.     *)
(***************************************************************************)
\* the pairs of visited literal triples of one subject with different predicates
DistinctPredicatePairs ==
    {<<j, k>> \in LiteralTriples(foaf_graph) \X LiteralTriples(foaf_graph) :
        /\ j <= Visited /\ k <= Visited
        /\ foaf_graph[j].s = foaf_graph[k].s
        /\ foaf_graph[j].p # foaf_graph[k].p}

\* doc has the values of triples j and k under two keys
KeepsBoth(doc, j, k) ==
    \E kj, kk \in DOMAIN doc \ SkeletonKeys :
        /\ kj # kk
        /\ doc[kj] = Coerce(foaf_graph[j].o)
        /\ doc[kk] = Coerce(foaf_graph[k].o)

C30_OneNameLost ==
    /\ result = "True"
    /\ foaf_graph = <<Triple(ex_alice, foaf_name, lit_Alice),
                      Triple(ex_alice, vcard_name, lit_Al)>>
    /\ DOMAIN Node[node_key_map[ex_alice]] = SkeletonKeys \cup {K_name}
    /\ Node[node_key_map[ex_alice]][K_name] = StrVal(lit_Al.s)

\* two literal triples of one subject whose predicates have different local
\* names have each its value under its own key
C30_DifferentLocalNamesKept ==
    \A pair \in DistinctPredicatePairs :
        LocalName(foaf_graph[pair[1]].p.s) # LocalName(foaf_graph[pair[2]].p.s) =>
            \A doc \in DocsOf(foaf_graph[pair[1]].s) :
                KeepsBoth(doc, pair[1], pair[2])

====
